---- MODULE Spec2Model ----
(***************************************************************************)
(* A model of claude-docker: the wrapper that runs Claude Code inside a    *)
(* docker/finch container.  The repository holds two versions of the       *)
(* script: src/claude_docker.py (argparse based, the module the tests      *)
(* import) and src/claude-docker.py (hand-rolled argument parser).  The    *)
(* variable impl says which of the two a process executes.                 *)
(*                                                                         *)
(* Text is modelled as sequences of one-token strings, so that strip(),    *)
(* expanduser() and " ".join() are computed, not assumed.                  *)
(***************************************************************************)
EXTENDS Integers, Sequences, FiniteSets, TLC

\* ------------------------------------------------------------------------
\* Bounds of the model
\* ------------------------------------------------------------------------
\* Longest argument list (sys.argv[1:]) a process is started with.
MaxArgs == 3
\* Most entries (top-level "name: value" lines) of an agents.yaml file.
MaxEntries == 1

\* ------------------------------------------------------------------------
\* Values
\* ------------------------------------------------------------------------
\* os.environ.get(...) of a variable that is not in the environment.
Unset == "unset"
\* The two scripts of the repository.
Impls == {"argparse", "manual"}

\* str.strip() removes these from both ends.
Whitespace == {" ", "\n"}

RECURSIVE LStrip(_)
LStrip(s) ==
    IF s # <<>> /\ Head(s) \in Whitespace THEN LStrip(Tail(s)) ELSE s

RECURSIVE RStrip(_)
RStrip(s) ==
    IF s # <<>> /\ s[Len(s)] \in Whitespace
    THEN RStrip(SubSeq(s, 1, Len(s) - 1))
    ELSE s

Strip(s) == RStrip(LStrip(s))

\* ------------------------------------------------------------------------
\* Build hash and rebuild decision
\* ------------------------------------------------------------------------
\* Contents the two build inputs can have.  "x" + "y" and "xy" + "" are two
\* different pairs of files with the same concatenation.
DockerfileContents == {<<"x">>, <<"x", "y">>}
EntrypointContents == {<<>>, <<"y">>}

\* hashlib.sha256(bytes).hexdigest(), idealised as collision free on inputs
\* of fewer than 64 bytes: the digest is 64 hexadecimal digits, one for
\* each byte of the input and "0" after them, so it is never empty and
\* holds no whitespace.  The faulty variant is as long as its input.
HexDigit(byte) == CASE byte = "x" -> "a" [] byte = "y" -> "b" [] OTHER -> "f"
Sha256Hex_unpadded(bytes) == [k \in 1..Len(bytes) |-> HexDigit(bytes[k])]
Sha256Hex(bytes) == [k \in 1..64 |-> IF k <= Len(bytes) THEN HexDigit(bytes[k]) ELSE "0"]

\* build_hash(): h.update(Dockerfile); h.update(entrypoint.sh) hashes the
\* concatenation of the two files.
build_hash(df, ep) == Sha256Hex(df \o ep)

\* The claude-code image of the runtime: absent, or present with the value
\* of its build.hash label (<<>> when the image carries no such label).
NoImage == [exists |-> FALSE, label |-> <<>>]
ImageWith(l) == [exists |-> TRUE, label |-> l]
Images ==
    {NoImage, ImageWith(<<>>)} \cup
    {ImageWith(build_hash(d, e)) : d \in DockerfileContents, e \in EntrypointContents}

\* "<runtime> image inspect claude-code": returncode 0 iff the image exists.
InspectReturncode(img) == IF img.exists THEN 0 ELSE 1
\* "... --format {{index .Config.Labels "build.hash"}}" prints the label and
\* a newline.
InspectLabelStdout(img) == img.label \o <<"\n">>

\* Values of CLAUSE_DOCKER_FORCE_BUILD in a process's environment.
ForceValues == {Unset, "1", "0"}

\* needs_rebuild(runtime), and two faulty variants of it: one that does not
\* look at CLAUSE_DOCKER_FORCE_BUILD, one that compares the unstripped
\* output of image inspect.
needs_rebuild_noforce(force, img, df, ep) ==
    IF InspectReturncode(img) # 0 THEN TRUE
    ELSE Strip(InspectLabelStdout(img)) # build_hash(df, ep)
needs_rebuild_nostrip(force, img, df, ep) ==
    IF force = "1" THEN TRUE
    ELSE IF InspectReturncode(img) # 0 THEN TRUE
    ELSE InspectLabelStdout(img) # build_hash(df, ep)
needs_rebuild(force, img, df, ep) ==
    IF force = "1" THEN TRUE
    ELSE IF InspectReturncode(img) # 0 THEN TRUE
    ELSE Strip(InspectLabelStdout(img)) # build_hash(df, ep)

\* ------------------------------------------------------------------------
\* Command-line tokens
\* ------------------------------------------------------------------------
\* Strings are atomic here, so str.startswith is a membership test in the
\* set of the tokens that have the prefix.
HelpTokens == {"-h", "--help"}
DirTokens == {"-d", "--dir"}
\* Tokens that start with "--dir=" or "-d=", and the text after the "=".
DirEqTokens == {"--dir=/a", "-d=/a"}
DirEqValue(t) == "/a"
StreamBuildTokens == {"-s", "-sj", "--no-stream", "-b"}
LogTokens == {"--log-stream", "--no-log-stream", "--log-dir"}
\* Every token that starts with "-".
DashTokens ==
    HelpTokens \cup DirTokens \cup DirEqTokens \cup StreamBuildTokens \cup
    LogTokens \cup
    {"-p", "--prompt", "--build", "--stream", "--stream-json", "--once",
     "--older-than"}
\* Tokens that do not start with "-".
WordTokens ==
    {"setup", "setup-c3po", "shell", "clean-logs", "agent", "run", "list",
     "notes", "coder", "w", "7d"}
StartsWithDash(t) == t \in DashTokens

\* " ".join(tokens)
RECURSIVE JoinSpace(_)
JoinSpace(ts) ==
    IF ts = <<>> THEN <<>>
    ELSE IF Len(ts) = 1 THEN <<ts[1]>>
    ELSE <<ts[1], " ">> \o JoinSpace(Tail(ts))

\* args[i:] of Python, for a 1-based index i.
From(args, i) == SubSeq(args, i, Len(args))

\* What main() decides: the handler it calls (or the way it ends) and the
\* arguments it hands over.
Outcome(kind, prompt, flags, rest) ==
    [kind |-> kind, prompt |-> prompt, flags |-> flags, rest |-> rest]

\* ------------------------------------------------------------------------
\* src/claude-docker.py: main(), the hand-rolled parser
\* ------------------------------------------------------------------------
\* The while loop of main(): i is the (1-based) index of the token read,
\* gf the global_flags collected so far.  The loop ends in a return (help,
\* direct prompt), in a break (subcommand) or by running out of tokens.
RECURSIVE ManualScan(_, _, _)
ManualScan(args, i, gf) ==
    IF i > Len(args) THEN Outcome("usage", <<>>, gf, <<>>)
    ELSE LET arg == args[i] IN
      IF arg \in HelpTokens THEN Outcome("help", <<>>, gf, <<>>)
      ELSE IF arg \in DirTokens THEN
        IF i + 1 <= Len(args)
        THEN ManualScan(args, i + 2, gf \o <<arg, args[i + 1]>>)
        ELSE ManualScan(args, i + 1, Append(gf, arg))
      ELSE IF arg \in DirEqTokens THEN ManualScan(args, i + 1, Append(gf, arg))
      ELSE IF arg \in StreamBuildTokens THEN ManualScan(args, i + 1, Append(gf, arg))
      ELSE IF arg = "-p" THEN
        IF i + 1 <= Len(args)
        THEN Outcome("direct", <<args[i + 1]>>, gf \o <<arg, args[i + 1]>>, From(args, i + 2))
        ELSE ManualScan(args, i + 1, Append(gf, arg))
      ELSE IF arg \in {"setup", "shell"} THEN Outcome(arg, <<>>, gf, From(args, i + 1))
      ELSE IF arg = "setup-c3po" THEN Outcome("setup-c3po", <<>>, gf, From(args, i + 1))
      ELSE IF arg = "agent" THEN Outcome("agent", <<>>, gf, From(args, i + 1))
      ELSE IF StartsWithDash(arg) THEN ManualScan(args, i + 1, Append(gf, arg))
      ELSE Outcome("direct", JoinSpace(From(args, i)), gf, <<>>)

\* main() up to the call of the handler.  setup-c3po with fewer than two
\* arguments is a usage error.
ManualMain(args) ==
    LET o == ManualScan(args, 1, <<>>) IN
    IF o.kind = "setup-c3po" /\ Len(o.rest) < 2
    THEN Outcome("usage", <<>>, o.flags, o.rest)
    ELSE o

\* The name search of cmd_agent: the first token of args_list that does not
\* start with "-" (0 when there is none).
RECURSIVE AgentNameIndex(_, _)
AgentNameIndex(args_list, j) ==
    IF j > Len(args_list) THEN 0
    ELSE IF StartsWithDash(args_list[j]) THEN AgentNameIndex(args_list, j + 1)
    ELSE j

\* cmd_agent before it reads agents.yaml: a usage error, the list command,
\* or a run of the named agent.
ManualAgent(args_list, gf) ==
    IF args_list = <<>> THEN Outcome("usage", <<>>, gf, <<>>)
    ELSE IF args_list[1] = "list" THEN Outcome("agent-list", <<>>, gf, <<>>)
    ELSE LET j == AgentNameIndex(args_list, 1) IN
      IF j = 0 THEN Outcome("usage", <<>>, gf, <<>>)
      ELSE Outcome("agent-run", <<>>, gf, <<args_list[j]>>)

\* ------------------------------------------------------------------------
\* src/claude_docker.py: main(), the argparse parser
\* ------------------------------------------------------------------------
\* Options of the top-level parser: store_true flags and options that take
\* one value.
TopFlagOpts ==
    {"-s", "--stream", "-sj", "--stream-json", "--no-stream", "-b", "--build",
     "--log-stream", "--no-log-stream"}
TopValueOpts == {"-d", "--dir", "--log-dir", "-p", "--prompt"}
\* Options the agent parser repeats.
AgentFlagOpts == TopFlagOpts
AgentValueOpts == {"--log-dir"}
Subcommands == {"setup", "setup-c3po", "shell", "clean-logs", "agent"}

\* A parser without subparsers (setup, setup-c3po, shell, clean-logs,
\* agent list, agent run): it takes up to nWant positionals, needs nNeed of
\* them, and knows the one-value options valueOpts.  argparse exits 0 at a
\* help option, exits 2 at once at an option without its value, and exits 2
\* at the end for a missing positional or for anything it did not
\* recognise (extras).
RECURSIVE ArgparseLeaf(_, _, _, _, _, _, _, _)
ArgparseLeaf(kind, rest, i, nWant, nNeed, valueOpts, got, st) ==
    IF i > Len(rest) THEN
      IF Len(got) < nNeed \/ st.extras THEN Outcome("error", <<>>, <<>>, <<>>)
      ELSE Outcome(kind, st.prompt, <<>>, got)
    ELSE LET tok == rest[i] IN
      IF tok \in HelpTokens THEN Outcome("help", <<>>, <<>>, <<>>)
      ELSE IF tok \in valueOpts THEN
        IF i + 1 <= Len(rest) /\ ~StartsWithDash(rest[i + 1])
        THEN ArgparseLeaf(kind, rest, i + 2, nWant, nNeed, valueOpts, got, st)
        ELSE Outcome("error", <<>>, <<>>, <<>>)
      ELSE IF StartsWithDash(tok) THEN
        ArgparseLeaf(kind, rest, i + 1, nWant, nNeed, valueOpts, got,
                     [st EXCEPT !.extras = TRUE])
      ELSE IF Len(got) < nWant THEN
        ArgparseLeaf(kind, rest, i + 1, nWant, nNeed, valueOpts, Append(got, tok), st)
      ELSE
        ArgparseLeaf(kind, rest, i + 1, nWant, nNeed, valueOpts, got,
                     [st EXCEPT !.extras = TRUE])

\* The agent parser: its options, then the agent_cmd subparser (list, run).
\* Without agent_cmd main() prints the agent help and returns 2.
RECURSIVE ArgparseAgent(_, _, _)
ArgparseAgent(rest, i, st) ==
    IF i > Len(rest) THEN
      IF st.extras THEN Outcome("error", <<>>, <<>>, <<>>)
      ELSE Outcome("agent-help", <<>>, <<>>, <<>>)
    ELSE LET tok == rest[i] IN
      IF tok \in HelpTokens THEN Outcome("help", <<>>, <<>>, <<>>)
      ELSE IF tok \in AgentFlagOpts THEN ArgparseAgent(rest, i + 1, st)
      ELSE IF tok \in AgentValueOpts THEN
        IF i + 1 <= Len(rest) /\ ~StartsWithDash(rest[i + 1])
        THEN ArgparseAgent(rest, i + 2, st)
        ELSE Outcome("error", <<>>, <<>>, <<>>)
      ELSE IF StartsWithDash(tok) THEN
        ArgparseAgent(rest, i + 1, [st EXCEPT !.extras = TRUE])
      ELSE IF tok = "list" THEN
        ArgparseLeaf("agent-list", From(rest, i + 1), 1, 0, 0, {}, <<>>, st)
      ELSE IF tok = "run" THEN
        ArgparseLeaf("agent-run", From(rest, i + 1), 1, 1, 1, {}, <<>>, st)
      ELSE Outcome("error", <<>>, <<>>, <<>>)

\* The top-level parser: global options, then the subcommand, which takes
\* every token after it.  A word that is no subcommand is an invalid choice.
RECURSIVE ArgparseTop(_, _, _)
ArgparseTop(args, i, st) ==
    IF i > Len(args) THEN
      IF st.extras THEN Outcome("error", <<>>, <<>>, <<>>)
      ELSE Outcome("none", st.prompt, <<>>, <<>>)
    ELSE LET tok == args[i] IN
      IF tok \in HelpTokens THEN Outcome("help", <<>>, <<>>, <<>>)
      ELSE IF tok \in TopFlagOpts \/ tok \in DirEqTokens THEN ArgparseTop(args, i + 1, st)
      ELSE IF tok \in TopValueOpts THEN
        IF i + 1 <= Len(args) /\ ~StartsWithDash(args[i + 1])
        THEN ArgparseTop(args, i + 2,
               IF tok \in {"-p", "--prompt"}
               THEN [st EXCEPT !.prompt = <<args[i + 1]>>] ELSE st)
        ELSE Outcome("error", <<>>, <<>>, <<>>)
      ELSE IF StartsWithDash(tok) THEN
        ArgparseTop(args, i + 1, [st EXCEPT !.extras = TRUE])
      ELSE IF tok = "agent" THEN ArgparseAgent(From(args, i + 1), 1, st)
      ELSE IF tok = "setup" THEN
        ArgparseLeaf("setup", From(args, i + 1), 1, 1, 0, {}, <<>>, st)
      ELSE IF tok = "setup-c3po" THEN
        ArgparseLeaf("setup-c3po", From(args, i + 1), 1, 2, 2, {}, <<>>, st)
      ELSE IF tok = "shell" THEN
        ArgparseLeaf("shell", From(args, i + 1), 1, 0, 0, {}, <<>>, st)
      ELSE IF tok = "clean-logs" THEN
        ArgparseLeaf("clean-logs", From(args, i + 1), 1, 0, 0, {"--older-than"}, <<>>, st)
      ELSE Outcome("error", <<>>, <<>>, <<>>)

\* SelectSeq with the set of the tokens to keep: [a for a in argv if a in S].
Keep(args, S) ==
    LET in(a) == a \in S IN SelectSeq(args, in)

\* main() up to the call of the handler: parse_args(), then the dispatch on
\* args.command.  The flags handed to cmd_direct_prompt are the log flags of
\* sys.argv; cmd_agent_run collects its own from sys.argv.  Without a
\* subcommand and without -p main() prints the help and returns 2.
ArgparseMain(args) ==
    LET o == ArgparseTop(args, 1, [prompt |-> <<>>, extras |-> FALSE]) IN
    IF o.kind = "none" THEN
      IF o.prompt # <<>> /\ o.prompt # <<"">>
      THEN Outcome("direct", o.prompt, Keep(args, LogTokens), <<>>)
      ELSE Outcome("nocommand", <<>>, <<>>, <<>>)
    ELSE IF o.kind = "agent-run" THEN
      Outcome("agent-run", <<>>,
              Keep(args, {"-s", "-sj", "--no-stream", "-b"} \cup LogTokens), o.rest)
    ELSE o

\* ------------------------------------------------------------------------
\* Python and YAML values
\* ------------------------------------------------------------------------
\* A value is tagged with its type: None, str (a sequence of tokens), dict
\* (a function on its keys), list (a sequence) or int.
NoneV == [t |-> "none", v |-> <<>>]
StrV(s) == [t |-> "str", v |-> s]
DictV(f) == [t |-> "dict", v |-> f]
ListV(s) == [t |-> "list", v |-> s]
IntV(n) == [t |-> "int", v |-> <<n>>]
\* How a call ends when it does not return: sys.exit(code) or an exception.
ExitV(code) == [t |-> "exit", v |-> <<code>>]
RaiseV(exc) == [t |-> "raise", v |-> <<exc>>]
\* A returned AgentConfig.
ConfigV(c) == [t |-> "config", v |-> c]

EmptyMap == <<>>

\* bool(x) is False
Falsy(x) ==
    \/ x.t = "none"
    \/ x.t \in {"str", "list"} /\ x.v = <<>>
    \/ x.t = "dict" /\ DOMAIN x.v = {}
    \/ x.t = "int" /\ x.v = <<0>>

\* d.get(key, default) for a dict value d
Get(d, key, default) == IF key \in DOMAIN d.v THEN d.v[key] ELSE default
\* d.get(key, default) or default
GetOr(d, key, default) ==
    LET x == Get(d, key, default) IN IF Falsy(x) THEN default ELSE x

\* ------------------------------------------------------------------------
\* os.path.expanduser
\* ------------------------------------------------------------------------
\* $HOME, and the password database: the home directory of each known user.
Home == <<"/", "h">>
KnownUsers == {<<"u">>}
PwDir(user) == <<"/", "u">>

\* path.find("/", 1): the index of the first "/" after the first token, or
\* the length of the path plus one when there is none (1-based).
RECURSIVE FindSlash(_, _)
FindSlash(path, i) ==
    IF i > Len(path) THEN i
    ELSE IF path[i] = "/" THEN i
    ELSE FindSlash(path, i + 1)

RECURSIVE RStripSlash(_)
RStripSlash(s) ==
    IF s # <<>> /\ s[Len(s)] = "/" THEN RStripSlash(SubSeq(s, 1, Len(s) - 1)) ELSE s

expanduser(path) ==
    IF path = <<>> \/ Head(path) # "~" THEN path
    ELSE LET i == FindSlash(path, 2)
             user == SubSeq(path, 2, i - 1)
         IN IF i # 2 /\ user \notin KnownUsers THEN path
            ELSE LET userhome == RStripSlash(IF i = 2 THEN Home ELSE PwDir(user))
                     res == userhome \o From(path, i)
                 IN IF res = <<>> THEN <<"/">> ELSE res

\* ------------------------------------------------------------------------
\* agents.yaml
\* ------------------------------------------------------------------------
AgentNames == {"notes", "coder"}

\* The file is missing, or it holds a sequence of top-level lines
\* "name: value".
MissingFile == [t |-> "missing", v |-> <<>>]
FileOf(lines) == [t |-> "file", v |-> lines]
Line(name, value) == [name |-> name, value |-> value]

\* Workspace paths written in the file.
TildePath == <<"~", "/", "a">>
PlainPath == <<"/", "a">>
UserPath == <<"~", "u", "/", "a">>
UnknownUserPath == <<"~", "a">>
Paths == {<<>>, TildePath, PlainPath, UserPath, UnknownUserPath}

\* A key that a dict entry does not have.
Absent == [t |-> "absent", v |-> <<>>]
\* The dict with the keys of f whose value is not Absent.
DictOf(f) ==
    LET keys == {k \in DOMAIN f : f[k] # Absent}
    IN DictV([k \in keys |-> f[k]])

OpusModel == StrV(<<"opus">>)
SampleEnv == DictV([VAR |-> StrV(<<"value">>)])
SampleInit == ListV(<<"cmd1", "cmd2">>)
SamplePrompt == StrV(<<"Do stuff.">>)
SampleTriggers == ListV(<<DictV([type |-> StrV(<<"c3po">>)])>>)
SamplePostRun == ListV(<<"bash scripts/post.sh">>)

\* Block-form entries: every combination of workspace, model, env and init,
\* and, for a fixed workspace, every combination of prompt, triggers and
\* post_run.
DictEntries ==
    {DictOf([workspace |-> w, model |-> m, env |-> e, init |-> i]) :
        w \in {Absent, NoneV, StrV(<<>>), StrV(TildePath)},
        m \in {Absent, OpusModel},
        e \in {Absent, NoneV, SampleEnv},
        i \in {Absent, NoneV, SampleInit}}
    \cup
    {DictOf([workspace |-> StrV(TildePath), model |-> OpusModel,
             prompt |-> p, triggers |-> tr, post_run |-> pr]) :
        p \in {Absent, SamplePrompt},
        tr \in {Absent, SampleTriggers},
        pr \in {Absent, SamplePostRun}}

\* What a line can hold: the string shorthand, a block, nothing (null), or
\* a value of another type.
EntryValues == {StrV(p) : p \in Paths} \cup DictEntries \cup {NoneV, IntV(7)}

Lines == {Line(n, val) : n \in AgentNames, val \in EntryValues}

RECURSIVE SeqsUpTo(_, _)
SeqsUpTo(S, n) ==
    IF n = 0 THEN {<<>>}
    ELSE LET shorter == SeqsUpTo(S, n - 1)
         IN shorter \cup {Append(s, x) : s \in {q \in shorter : Len(q) = n - 1}, x \in S}

AgentFiles == {MissingFile} \cup {FileOf(ls) : ls \in SeqsUpTo(Lines, MaxEntries)}

\* yaml.safe_load of the file's text: None for an empty document, else the
\* mapping of its lines, a later line for a name replacing an earlier one.
RECURSIVE MappingOf(_)
MappingOf(lines) ==
    IF lines = <<>> THEN EmptyMap
    ELSE LET last == lines[Len(lines)]
         IN (last.name :> last.value) @@ MappingOf(SubSeq(lines, 1, Len(lines) - 1))

safe_load(lines) == IF lines = <<>> THEN NoneV ELSE DictV(MappingOf(lines))

\* load_agents() reading AGENTS_FILE: what it returns (or how it ends).
\* claude_docker.py returns None for a missing file and whatever safe_load
\* gives; claude-docker.py exits with 1 for a missing file and returns {}
\* for an empty document.
load_agents(im, file) ==
    IF im = "argparse" THEN
      IF file.t = "missing" THEN NoneV ELSE safe_load(file.v)
    ELSE
      IF file.t = "missing" THEN ExitV(1)
      ELSE LET data == safe_load(file.v) IN IF Falsy(data) THEN DictV(EmptyMap) ELSE data

\* The content of AGENTS_FILE after load_agents(): the file is only opened
\* for reading, so it is what it was.
file_after_load_appending(im, file) ==
    IF file.t = "missing" \/ file.v = <<>> THEN file
    ELSE FileOf(<<file.v[1]>> \o file.v)
file_after_load(im, file) == file

\* ------------------------------------------------------------------------
\* AgentConfig and get_agent_config
\* ------------------------------------------------------------------------
\* The dataclass: name and workspace, and the defaults model = None,
\* env = {} and init = [].  It has no other field.
AgentConfig(name, workspace, model, env, init) ==
    [name |-> name, workspace |-> workspace, model |-> model, env |-> env, init |-> init]
AgentConfigDefault(name, workspace) ==
    AgentConfig(name, workspace, NoneV, DictV(EmptyMap), ListV(<<>>))

\* The AgentConfig of a block entry: model=raw.get("model"),
\* env=raw.get("env", {}) or {}, init=raw.get("init", []) or [].
ConfigFromDict_without_or(name, workspace, raw) ==
    AgentConfig(name, workspace,
                Get(raw, "model", NoneV),
                Get(raw, "env", DictV(EmptyMap)),
                Get(raw, "init", ListV(<<>>)))
ConfigFromDict(name, workspace, raw) ==
    AgentConfig(name, workspace,
                Get(raw, "model", NoneV),
                GetOr(raw, "env", DictV(EmptyMap)),
                GetOr(raw, "init", ListV(<<>>)))

\* get_agent_config(name, agents) of claude_docker.py.  agents.get on None
\* raises AttributeError; expanduser of a workspace that is no string raises
\* TypeError; a string entry or a workspace that expands to "" gives None.
get_agent_config_argparse(name, agents) ==
    IF agents.t # "dict" THEN RaiseV("AttributeError")
    ELSE LET raw == Get(agents, name, NoneV) IN
      IF raw.t = "none" THEN NoneV
      ELSE IF raw.t = "str" THEN
        LET workspace == expanduser(raw.v) IN
        IF workspace = <<>> THEN NoneV
        ELSE ConfigV(AgentConfigDefault(name, workspace))
      ELSE IF raw.t = "dict" THEN
        LET w == Get(raw, "workspace", StrV(<<>>)) IN
        IF w.t # "str" THEN RaiseV("TypeError")
        ELSE LET workspace == expanduser(w.v) IN
          IF workspace = <<>> THEN NoneV
          ELSE ConfigV(ConfigFromDict(name, workspace, raw))
      ELSE NoneV

\* get_agent_config(name, agents) of claude-docker.py: the same without the
\* two checks of the workspace.
get_agent_config_manual(name, agents) ==
    IF agents.t # "dict" THEN RaiseV("AttributeError")
    ELSE LET raw == Get(agents, name, NoneV) IN
      IF raw.t = "none" THEN NoneV
      ELSE IF raw.t = "str" THEN
        ConfigV(AgentConfigDefault(name, expanduser(raw.v)))
      ELSE IF raw.t = "dict" THEN
        LET w == Get(raw, "workspace", StrV(<<>>)) IN
        IF w.t # "str" THEN RaiseV("TypeError")
        ELSE ConfigV(ConfigFromDict(name, expanduser(w.v), raw))
      ELSE NoneV

get_agent_config(im, name, agents) ==
    IF im = "argparse" THEN get_agent_config_argparse(name, agents)
    ELSE get_agent_config_manual(name, agents)

\* ------------------------------------------------------------------------
\* State
\* ------------------------------------------------------------------------
VARIABLES
    impl,           \* the script the process runs: "argparse" or "manual"
    argv,           \* sys.argv[1:] of the process
    force,          \* CLAUSE_DOCKER_FORCE_BUILD as the rebuild check found it
                    \* in the process's environment
    dockerfile,     \* content of SCRIPT_DIR/Dockerfile
    entrypoint,     \* content of SCRIPT_DIR/entrypoint.sh
    image,          \* the claude-code image of the container runtime
    pc,             \* where the process is: idle (none), check, build,
                    \* start, running, exited
    cmd,            \* the handler main() dispatched to
    force_rebuild,  \* the handler's local force_rebuild
    needed,         \* force_rebuild or needs_rebuild(runtime), once evaluated
    built,          \* the handler's "<runtime> build" has succeeded
    build_failed,   \* the handler's "<runtime> build" has failed
    started,        \* the handler has started its container
    status,         \* exit status of the process (-1 while it runs)
    exc,            \* the exception that ended the process ("" for none)
    agentsFile,     \* content of ~/.claude-docker/agents.yaml
    agents,         \* what the last load_agents() returned
    loads,          \* load_agents() calls made in a row, capped at 2
    prevFile,       \* content of agents.yaml before the last load_agents()
    query,          \* the name get_agent_config was last asked for
    cfg,            \* what get_agent_config returned for it
    loop,           \* the token loop of claude-docker.py that is running:
                    \* "main", "agent_flags", "agent_name"; "done" after
                    \* them, "none" when the parser is not followed
    idx,            \* the index of that loop (i or j of the source, 0-based)
    global_flags,   \* global_flags of main()
    subcommand,     \* subcommand of main() ("" for None)
    subcommand_args, \* subcommand_args of main()
    prompt_given,   \* the prompt handed to cmd_direct_prompt
    agent_stream,   \* agent_stream of cmd_agent
    agent_stream_raw, \* agent_stream_raw of cmd_agent
    agent_name,     \* agent_name of cmd_agent ("" while not found)
    classes,        \* for each token of argv, what main() took it for
    reads,          \* for each position of the list the running loop walks,
                    \* how often the loop has examined it
    iterations,     \* iterations of the token loops made so far
    docker_args,    \* the arguments run_container was called with
    format_stream,  \* run_container pipes the output through format-stream
    runtime_cache,  \* ClaudeDocker._runtime ("" for None)
    detect_log,     \* the detect_runtime() calls of the process: what was
                    \* on the search path and how the call ended
    init_commands,  \* the list encode_init_commands is given
    encoded_init,   \* what encode_init_commands returned (<<>> before)
    decoded_init,   \* what decode_init_commands returned for it
    hash_log,       \* the build_hash() calls made: the two files, the
                    \* environment and the image at the call, and the
                    \* value returned
    running_container, \* _running_container (<<>> for None)
    container,      \* the container of run_container: "none" before it is
                    \* spawned, then "running", "exited" or "stopped"
    container_rc,   \* the exit code of the container (-1 before it exits)
    format_rc,      \* the return code of format-stream (-1 before it ends)
    frames,         \* the calls of the main thread that are in progress,
                    \* innermost last: run_container, the signal handlers
                    \* that interrupted it or one another, the atexit hook
    stops,          \* who issued a "<runtime> stop" for the container
    signals,        \* SIGINT/SIGTERM delivered so far
    signalled,      \* a signal has arrived while the container was running
    returned,       \* what run_container returned (-1 before)
    environ_token,  \* os.environ["CLAUDE_CODE_OAUTH_TOKEN"] (<<>> when unset)
    disk,           \* the files and directories that exist, of those the
                    \* handlers test, create or write
    wrote,          \* what the process has created or written so far
    older_than,     \* args.older_than of clean-logs (None without the flag)
    log_config,     \* streamLogging of claude-docker.yaml as clean-logs
                    \* reads it
    log_files,      \* the files of the log directory, each with its name
                    \* and the days since it was last modified
    deleted         \* the names of the files clean-logs has deleted

runVars ==
    <<argv, force, dockerfile, entrypoint, image, pc, cmd, force_rebuild,
      needed, built, build_failed, started, status, exc>>
agentVars == <<agentsFile, agents, loads, prevFile, query, cfg>>
parseVars ==
    <<loop, idx, global_flags, subcommand, subcommand_args, prompt_given, agent_stream,
      agent_stream_raw, agent_name, classes, reads, iterations>>
launchVars == <<docker_args, format_stream>>
detectVars == <<runtime_cache, detect_log>>
encodeVars == <<init_commands, encoded_init, decoded_init>>
signalVars ==
    <<running_container, container, container_rc, format_rc, frames, stops, signals,
      signalled, returned>>
directVars == <<environ_token, disk, wrote>>
cleanVars == <<older_than, log_config, log_files, deleted>>
laterVars == <<signalVars, directVars, cleanVars>>
restVars == <<encodeVars, hash_log, laterVars>>
moreVars == <<parseVars, launchVars, detectVars, restVars>>
vars == <<impl, runVars, agentVars, moreVars>>

\* Values of the variables a specification does not use.
NotLoaded == [t |-> "notloaded", v |-> <<>>]
NotAsked == [t |-> "notasked", v |-> <<>>]

RunIdle ==
    /\ argv = <<>> /\ force = Unset /\ pc = "idle" /\ cmd = "none"
    /\ force_rebuild = FALSE /\ needed = FALSE /\ built = FALSE
    /\ build_failed = FALSE /\ started = FALSE /\ status = -1 /\ exc = ""

AgentsIdle ==
    /\ agents = NotLoaded /\ loads = 0 /\ prevFile = MissingFile
    /\ query = "" /\ cfg = NotAsked

ParseIdle ==
    /\ loop = "none" /\ idx = 0 /\ global_flags = <<>> /\ subcommand = ""
    /\ subcommand_args = <<>> /\ prompt_given = <<>> /\ agent_stream = TRUE
    /\ agent_stream_raw = FALSE /\ agent_name = "" /\ classes = <<>>
    /\ reads = <<>> /\ iterations = 0

LaunchIdle == docker_args = <<>> /\ format_stream = FALSE

DetectIdle == runtime_cache = "" /\ detect_log = <<>>

NotDecoded == [t |-> "notdecoded", v |-> <<>>]
EncodeIdle ==
    init_commands = <<>> /\ encoded_init = <<>> /\ decoded_init = NotDecoded

SignalIdle ==
    /\ running_container = <<>> /\ container = "none" /\ container_rc = -1
    /\ format_rc = -1 /\ frames = <<>> /\ stops = <<>> /\ signals = 0
    /\ signalled = FALSE /\ returned = -1

DirectIdle == environ_token = <<>> /\ disk = {} /\ wrote = {}

CleanIdle ==
    /\ older_than = NoneV /\ log_config = NoneV /\ log_files = {}
    /\ deleted = {}

LaterIdle == SignalIdle /\ DirectIdle /\ CleanIdle

RestIdle == EncodeIdle /\ hash_log = <<>> /\ LaterIdle

\* ------------------------------------------------------------------------
\* A process, from main() to the rebuild check
\* ------------------------------------------------------------------------
\* Tokens the argument lists are drawn from.
ArgTokens == {"-b", "--build", "-p", "notes", "agent", "run", "shell", "setup-c3po"}
ArgLists == SeqsUpTo(ArgTokens, MaxArgs)

\* agents.yaml as found by an agent command.
SampleAgentFiles ==
    {MissingFile, FileOf(<<>>),
     FileOf(<<Line("notes", StrV(TildePath))>>),
     FileOf(<<Line("notes", DictOf([model |-> OpusModel]))>>)}

\* x in list
InList(x, list) == \E k \in 1..Len(list) : list[k] = x

\* main() of the script im: the handler it reaches and its arguments.
Dispatch(im, args) ==
    IF im = "manual" THEN
      LET o == ManualMain(args) IN
      IF o.kind = "agent" THEN ManualAgent(o.rest, o.flags) ELSE o
    ELSE ArgparseMain(args)

\* force_rebuild = "-b" in flags, in cmd_direct_prompt and in the agent
\* handlers; cmd_shell and cmd_setup_c3po have no such test.
ForceRebuild(o) == o.kind \in {"direct", "agent-run"} /\ InList("-b", o.flags)

\* How far the handler gets before it asks needs_rebuild: it ends the
\* process (pc "exited") or stands at the rebuild check (pc "check").
Ended(o, st, ex) ==
    [pc |-> "exited", cmd |-> o.kind, force_rebuild |-> FALSE, status |-> st, exc |-> ex]
AtCheck(o) ==
    [pc |-> "check", cmd |-> o.kind, force_rebuild |-> ForceRebuild(o), status |-> -1, exc |-> ""]

\* detect_runtime(): sys.exit(1) when neither docker nor finch is found.
WithRuntime(o, runtimeOK) == IF runtimeOK THEN AtCheck(o) ELSE Ended(o, 1, "")

\* Every way the handler reached by o can get to its rebuild check or end
\* before it, over what it finds outside the process: a token or a
\* credentials file (direct prompt), docker or finch on the path, the
\* content of agents.yaml, and the result of a handler that runs no
\* container (setup, clean-logs).
BeforeCheck(im, o) ==
    CASE o.kind = "help" -> {Ended(o, 0, "")}
      [] o.kind = "usage" -> {Ended(o, 1, "")}
      [] o.kind \in {"error", "nocommand", "agent-help"} -> {Ended(o, 2, "")}
      [] o.kind \in {"setup", "clean-logs"} -> {Ended(o, rc, "") : rc \in {0, 1}}
      [] o.kind = "agent-list" ->
           {LET data == load_agents(im, file) IN
              IF data.t = "exit" THEN Ended(o, 1, "")
              ELSE IF data.t # "dict" THEN Ended(o, 1, "AttributeError")
              ELSE Ended(o, 0, "")
            : file \in SampleAgentFiles}
      [] o.kind = "agent-run" ->
           {LET data == load_agents(im, file) IN
              IF data.t = "exit" THEN Ended(o, 1, "")
              ELSE LET c == get_agent_config(im, o.rest[1], data) IN
                IF c.t = "raise" THEN Ended(o, 1, c.v[1])
                ELSE IF c.t = "none" THEN Ended(o, 1, "")
                ELSE IF c.v.workspace = <<>> THEN Ended(o, 1, "")
                ELSE WithRuntime(o, runtimeOK)
            : file \in SampleAgentFiles, runtimeOK \in BOOLEAN}
      [] o.kind = "direct" ->
           {IF ~authOK THEN Ended(o, 1, "") ELSE WithRuntime(o, runtimeOK)
            : authOK \in BOOLEAN, runtimeOK \in BOOLEAN}
      [] o.kind \in {"shell", "setup-c3po"} ->
           {WithRuntime(o, runtimeOK) : runtimeOK \in BOOLEAN}

RunCommands == {"direct", "agent-run", "shell", "setup-c3po"}

\* ------------------------------------------------------------------------
\* Actions of the run machine
\* ------------------------------------------------------------------------
\* A process is started: main() parses sys.argv and the handler runs up to
\* its rebuild check.
Invoke ==
    /\ pc = "idle"
    /\ \E im \in Impls, args \in ArgLists :
       \E r \in BeforeCheck(im, Dispatch(im, args)) :
         /\ impl' = im
         /\ argv' = args
         /\ pc' = r.pc
         /\ cmd' = r.cmd
         /\ force_rebuild' = r.force_rebuild
         /\ status' = r.status
         /\ exc' = r.exc
    /\ UNCHANGED <<force, dockerfile, entrypoint, image, needed, built, build_failed,
                   started>>
    /\ UNCHANGED <<agentVars, moreVars>>

\* if force_rebuild or needs_rebuild(runtime): the environment of the
\* process holds CLAUSE_DOCKER_FORCE_BUILD with some value, or not at all.
CheckRebuild ==
    /\ pc = "check"
    /\ \E f \in ForceValues :
         /\ force' = f
         /\ needed' = (force_rebuild \/ needs_rebuild(f, image, dockerfile, entrypoint))
    /\ pc' = IF needed' THEN "build" ELSE "start"
    /\ UNCHANGED <<impl, argv, dockerfile, entrypoint, image, cmd, force_rebuild,
                   built, build_failed, started, status, exc>>
    /\ UNCHANGED <<agentVars, moreVars>>

\* "<runtime> build --label build.hash=<build_hash()> -t claude-code" has
\* succeeded: the image is replaced.
BuildImage ==
    /\ pc = "build"
    /\ image' = ImageWith(build_hash(dockerfile, entrypoint))
    /\ built' = TRUE
    /\ pc' = "start"
    /\ UNCHANGED <<impl, argv, force, dockerfile, entrypoint, cmd, force_rebuild,
                   needed, build_failed, started, status, exc>>
    /\ UNCHANGED <<agentVars, moreVars>>

\* A faulty variant of BuildFails: the build run without check=True, so
\* that the handler goes on after a failed build.
BuildFails_unchecked ==
    /\ pc = "build"
    /\ build_failed' = TRUE
    /\ pc' = "start"
    /\ UNCHANGED <<impl, argv, force, dockerfile, entrypoint, image, cmd, force_rebuild,
                   needed, built, started, status, exc>>
    /\ UNCHANGED <<agentVars, moreVars>>

\* The build has failed: check=True raises CalledProcessError, which nothing
\* catches.
BuildFails ==
    /\ pc = "build"
    /\ build_failed' = TRUE
    /\ pc' = "exited"
    /\ status' = 1
    /\ exc' = "CalledProcessError"
    /\ UNCHANGED <<impl, argv, force, dockerfile, entrypoint, image, cmd, force_rebuild,
                   needed, built, started>>
    /\ UNCHANGED <<agentVars, moreVars>>

\* The handler starts its container ("<runtime> run ...").
StartContainer ==
    /\ pc = "start"
    /\ started' = TRUE
    /\ pc' = "running"
    /\ UNCHANGED <<impl, argv, force, dockerfile, entrypoint, image, cmd, force_rebuild,
                   needed, built, build_failed, status, exc>>
    /\ UNCHANGED <<agentVars, moreVars>>

\* The container run ends with return code rc.  run_container returns it;
\* cmd_shell and cmd_setup_c3po run with check=True and return 0.
ContainerExits ==
    /\ pc = "running"
    /\ \E rc \in {0, 1} :
         IF cmd \in {"shell", "setup-c3po"} /\ rc # 0
         THEN status' = 1 /\ exc' = "CalledProcessError"
         ELSE status' = rc /\ exc' = exc
    /\ pc' = "exited"
    /\ UNCHANGED <<impl, argv, force, dockerfile, entrypoint, image, cmd, force_rebuild,
                   needed, built, build_failed, started>>
    /\ UNCHANGED <<agentVars, moreVars>>

\* The process is gone; the files and the image stay.
ProcessGone ==
    /\ pc = "exited"
    /\ pc' = "idle"
    /\ argv' = <<>> /\ force' = Unset /\ cmd' = "none"
    /\ force_rebuild' = FALSE /\ needed' = FALSE /\ built' = FALSE
    /\ build_failed' = FALSE /\ started' = FALSE /\ status' = -1 /\ exc' = ""
    /\ UNCHANGED <<impl, dockerfile, entrypoint, image>>
    /\ UNCHANGED <<agentVars, moreVars>>

\* Someone edits Dockerfile or entrypoint.sh, at any time.
EditBuildInputs ==
    /\ \E d \in DockerfileContents, e \in EntrypointContents :
         /\ <<d, e>> # <<dockerfile, entrypoint>>
         /\ dockerfile' = d
         /\ entrypoint' = e
    /\ UNCHANGED <<impl, argv, force, image, pc, cmd, force_rebuild, needed, built,
                   build_failed, started, status, exc>>
    /\ UNCHANGED <<agentVars, moreVars>>

Init ==
    /\ impl \in Impls
    /\ RunIdle
    /\ dockerfile \in DockerfileContents
    /\ entrypoint \in EntrypointContents
    /\ image \in Images
    /\ agentsFile = MissingFile
    /\ AgentsIdle
    /\ ParseIdle /\ LaunchIdle /\ DetectIdle /\ RestIdle

Next ==
    \/ Invoke
    \/ CheckRebuild
    \/ BuildImage
    \/ BuildFails
    \/ StartContainer
    \/ ContainerExits
    \/ ProcessGone
    \/ EditBuildInputs

Spec == Init /\ [][Next]_vars

\* ------------------------------------------------------------------------
\* agents.yaml: loading and lookup
\* ------------------------------------------------------------------------
\* load_agents() reads AGENTS_FILE.
LoadAgents ==
    /\ agents' = load_agents(impl, agentsFile)
    /\ prevFile' = agentsFile
    /\ agentsFile' = file_after_load(impl, agentsFile)
    /\ loads' = IF loads < 2 THEN loads + 1 ELSE 2
    /\ query' = ""
    /\ cfg' = NotAsked
    /\ UNCHANGED <<impl, runVars, moreVars>>

\* get_agent_config(name, agents) on the data load_agents() returned.
GetAgentConfig ==
    /\ agents.t \notin {"notloaded", "exit"}
    /\ \E name \in AgentNames :
         /\ query' = name
         /\ cfg' = get_agent_config(impl, name, agents)
    /\ UNCHANGED <<impl, runVars, agentsFile, agents, loads, prevFile, moreVars>>

InitAgents ==
    /\ impl \in Impls
    /\ RunIdle
    /\ dockerfile = <<"x">>
    /\ entrypoint = <<>>
    /\ image = NoImage
    /\ agentsFile \in AgentFiles
    /\ AgentsIdle
    /\ ParseIdle /\ LaunchIdle /\ DetectIdle /\ RestIdle

NextAgents ==
    \/ LoadAgents
    \/ GetAgentConfig

SpecAgents == InitAgents /\ [][NextAgents]_vars

\* ------------------------------------------------------------------------
\* Properties of the rebuild decision and of the build
\* ------------------------------------------------------------------------
\* The step in which a handler without force_rebuild evaluates
\* needs_rebuild(runtime): needed' is what needs_rebuild returned.
NeedsRebuildReturns ==
    pc = "check" /\ pc' # "check" /\ ~force_rebuild

ImageIsCurrent ==
    image.exists /\ image.label = build_hash(dockerfile, entrypoint)

\* C1 as written: needs_rebuild returns True if CLAUSE_DOCKER_FORCE_BUILD is
\* '1', if the image does not exist or if its build.hash label differs from
\* the current build hash, and returns False exactly when the image exists,
\* its label equals the current build hash and the force variable is not
\* set.
C1_AsWritten ==
    [][NeedsRebuildReturns =>
         /\ (force' = "1" \/ ~image.exists
               \/ image.label # build_hash(dockerfile, entrypoint)) => needed'
         /\ ~needed' <=> (ImageIsCurrent /\ force' = Unset)]_vars

\* C1 (amended): needs_rebuild returns True if CLAUSE_DOCKER_FORCE_BUILD is
\* '1', if the image does not exist or if its build.hash label differs from
\* the current build hash; it returns False exactly when the image exists,
\* its label equals the current build hash and the force variable is not
\* '1' (unset, or set to any other value).
C1_NeedsRebuild ==
    [][NeedsRebuildReturns =>
         /\ (force' = "1" \/ ~image.exists
               \/ image.label # build_hash(dockerfile, entrypoint)) => needed'
         /\ ~needed' <=> (ImageIsCurrent /\ force' # "1")]_vars

\* needs_rebuild has returned False although the force variable is set (to
\* a value other than '1').
C1_Witness ==
    pc = "start" /\ ~force_rebuild /\ ~needed /\ force = "0" /\ ImageIsCurrent

\* The command line has neither -b nor --build.
NoBuildFlag == ~InList("-b", argv) /\ ~InList("--build", argv)

\* C2: once the image carries the current build hash as its build.hash
\* label, a run command (direct prompt, agent run, shell, setup-c3po) given
\* without -b and without the force variable decides against a build and
\* goes on to start its container, the image being left as it is.
C2_OneTimeBuild ==
    [][/\ (pc = "check" /\ pc' # "check" /\ cmd \in RunCommands /\ NoBuildFlag
             /\ force' = Unset /\ ImageIsCurrent)
            => (pc' = "start" /\ ~needed' /\ image' = image)
       /\ (pc = "start" /\ pc' # "start" /\ ~needed)
            => (started' /\ ~built' /\ ~build_failed' /\ image' = image)]_vars

\* A container runs that was started without a build, on an image built
\* earlier with the current hash.
C2_Witness ==
    /\ pc = "running" /\ started /\ ~needed /\ ~built
    /\ cmd = "agent-run" /\ NoBuildFlag /\ force = Unset /\ ImageIsCurrent

\* C3: in every run command, when a rebuild is needed the build has
\* succeeded before the container is started, the image it leaves carries
\* the build hash current at the build as its label, and after a failed
\* build the container is not started.
C3_BuildBeforeRun ==
    [][/\ (started' /\ needed') => built'
       /\ build_failed' => ~started'
       /\ (built' /\ ~built)
            => (pc = "build" /\ cmd \in RunCommands /\ image'.exists
                /\ image'.label = build_hash(dockerfile, entrypoint))]_vars

\* A shell was started after the build its rebuild check asked for.
C3_Witness ==
    pc = "running" /\ cmd = "shell" /\ needed /\ built /\ started

\* C4 as written: with -b or --build the image is rebuilt before the
\* container runs, even if the image carries the current build hash, in
\* direct prompt mode (-b -p <prompt>) and for agent runs.
C4_BuildFlagRebuilds ==
    (/\ cmd \in {"direct", "agent-run"}
     /\ started
     /\ Len(argv) > 0 /\ argv[1] \in {"-b", "--build"})
    => built

\* ------------------------------------------------------------------------
\* Properties of load_agents and get_agent_config
\* ------------------------------------------------------------------------
\* The entries of agents.yaml before the last load_agents() and now.
EntriesBefore == IF prevFile.t = "file" THEN MappingOf(prevFile.v) ELSE EmptyMap
EntriesOnDisk == IF agentsFile.t = "file" THEN MappingOf(agentsFile.v) ELSE EmptyMap

DefaultPrompt == StrV(<<"/c3po auto">>)

\* C5: after two load_agents() calls in a row the content of agents.yaml is
\* what it was after the first call.
C5_LoadTwiceSameFile ==
    loads = 2 => agentsFile = prevFile

\* agents.yaml holds a string-shorthand entry and has been loaded twice.
C5_Witness ==
    /\ loads = 2 /\ agentsFile = prevFile
    /\ \E n \in DOMAIN EntriesOnDisk :
         EntriesOnDisk[n].t = "str" /\ EntriesOnDisk[n].v # <<>>

\* The dict form of the shorthand "name: path".
MigratedShorthand(x, path) ==
    /\ x.t = "dict"
    /\ DOMAIN x.v = {"workspace", "prompt"}
    /\ x.v["workspace"].t = "str" /\ x.v["workspace"].v = path
    /\ x.v["prompt"].t = "str" /\ x.v["prompt"].v = DefaultPrompt.v

\* C6 as written: after load_agents() every string-shorthand entry
\* 'name: path' of the file is a dict entry with workspace path and prompt
\* '/c3po auto', in the returned data and in the file on disk.
C6_ShorthandMigrated ==
    loads >= 1 =>
      \A n \in DOMAIN EntriesBefore :
        EntriesBefore[n].t = "str" =>
          /\ agents.t = "dict"
          /\ n \in DOMAIN agents.v
          /\ MigratedShorthand(agents.v[n], EntriesBefore[n].v)
          /\ n \in DOMAIN EntriesOnDisk
          /\ MigratedShorthand(EntriesOnDisk[n], EntriesBefore[n].v)

\* C7 as written: after load_agents() a dict-form entry has gained the
\* prompt '/c3po auto' if and only if it had neither a prompt nor triggers,
\* and every field it had is unchanged (so an existing prompt is kept and
\* an entry with triggers gets no prompt).
C7_PromptAddedIffNeither ==
    loads >= 1 =>
      \A n \in DOMAIN EntriesBefore :
        EntriesBefore[n].t = "dict" =>
          /\ agents.t = "dict"
          /\ n \in DOMAIN agents.v
          /\ agents.v[n].t = "dict"
          /\ LET b == EntriesBefore[n].v
                 a == agents.v[n].v
                 added == DOMAIN a \ DOMAIN b
             IN /\ \A k \in DOMAIN b : k \in DOMAIN a /\ a[k] = b[k]
                /\ added \subseteq {"prompt"}
                /\ ("prompt" \in added)
                     <=> ("prompt" \notin DOMAIN b /\ "triggers" \notin DOMAIN b)
                /\ "prompt" \in added => a["prompt"] = DefaultPrompt

\* get_agent_config has been called on loaded data that is a mapping.
Asked == cfg.t # "notasked" /\ agents.t = "dict"

\* The entry asked for exists and has no workspace: the empty shorthand, or
\* a block whose workspace is missing or the empty string.
EntryWithoutWorkspace ==
    /\ query \in DOMAIN agents.v
    /\ LET e == agents.v[query] IN
         \/ e.t = "str" /\ e.v = <<>>
         \/ e.t = "dict" /\ "workspace" \notin DOMAIN e.v
         \/ /\ e.t = "dict" /\ "workspace" \in DOMAIN e.v
            /\ e.v["workspace"].t = "str" /\ e.v["workspace"].v = <<>>

\* The entry asked for exists and has a workspace (a non-empty string).
EntryWithWorkspace ==
    /\ query \in DOMAIN agents.v
    /\ LET e == agents.v[query] IN
         \/ e.t = "str" /\ e.v # <<>>
         \/ /\ e.t = "dict" /\ "workspace" \in DOMAIN e.v
            /\ e.v["workspace"].t = "str" /\ e.v["workspace"].v # <<>>

\* C8 as written: get_agent_config returns None when the name is no key of
\* agents and when the entry has no workspace (missing or empty), and it
\* never returns an AgentConfig with an empty workspace.
C8_NoneWithoutWorkspace ==
    Asked =>
      /\ query \notin DOMAIN agents.v => cfg.t = "none"
      /\ EntryWithoutWorkspace => cfg.t = "none"
      /\ cfg.t = "config" => cfg.v.workspace # <<>>

\* The home-expanded form of each workspace path of the files: "~/a" is
\* under $HOME, "~u/a" under the home of user u, and a path that does not
\* start with "~" or names an unknown user is left as it is.
HomeExpanded(path) ==
    CASE path = <<"~", "/", "a">> -> <<"/", "h", "/", "a">>
      [] path = <<"~", "u", "/", "a">> -> <<"/", "u", "/", "a">>
      [] path = <<"/", "a">> -> <<"/", "a">>
      [] path = <<"~", "a">> -> <<"~", "a">>

\* What the entry gives for a key, None when it is missing.
EntryField(e, key) == IF key \in DOMAIN e.v THEN e.v[key] ELSE NoneV

\* C9: for an entry with a workspace get_agent_config returns an AgentConfig
\* with the requested name and the home-expanded workspace; for a shorthand
\* entry model is None, env {} and init []; for a block entry model, env
\* and init are the entry's values, a missing or null env or init being
\* empty.
C9_ConfigFields ==
    (Asked /\ EntryWithWorkspace) =>
      LET e == agents.v[query] IN
      /\ cfg.t = "config"
      /\ cfg.v.name = query
      /\ e.t = "str" =>
           /\ cfg.v.workspace = HomeExpanded(e.v)
           /\ cfg.v.model = NoneV
           /\ cfg.v.env = DictV(EmptyMap)
           /\ cfg.v.init = ListV(<<>>)
      /\ e.t = "dict" =>
           /\ cfg.v.workspace = HomeExpanded(e.v["workspace"].v)
           /\ cfg.v.model = EntryField(e, "model")
           /\ cfg.v.env = IF EntryField(e, "env").t = "none"
                          THEN DictV(EmptyMap) ELSE e.v["env"]
           /\ cfg.v.init = IF EntryField(e, "init").t = "none"
                           THEN ListV(<<>>) ELSE e.v["init"]

\* A block entry with workspace "~/a", a model, a null env and an init list
\* has been looked up.
C9_Witness ==
    /\ Asked /\ EntryWithWorkspace /\ cfg.t = "config"
    /\ agents.v[query].t = "dict"
    /\ cfg.v.workspace = <<"/", "h", "/", "a">>
    /\ EntryField(agents.v[query], "model") = OpusModel
    /\ "env" \in DOMAIN agents.v[query].v /\ agents.v[query].v["env"].t = "none"
    /\ cfg.v.env = DictV(EmptyMap)
    /\ cfg.v.init = SampleInit

\* C10 as written: the AgentConfig carries the entry's triggers and
\* post_run lists unchanged, and both are empty lists when the entry does
\* not define them, also for a shorthand entry.
C10_TriggersCarried ==
    (Asked /\ cfg.t = "config") =>
      LET e == agents.v[query]
          want(key) == IF e.t = "dict" /\ key \in DOMAIN e.v THEN e.v[key] ELSE ListV(<<>>)
      IN /\ "triggers" \in DOMAIN cfg.v
         /\ cfg.v["triggers"] = want("triggers")
         /\ "post_run" \in DOMAIN cfg.v
         /\ cfg.v["post_run"] = want("post_run")

\* ------------------------------------------------------------------------
\* encode_init_commands and decode_init_commands
\* ------------------------------------------------------------------------
\* The init commands of the agents.yaml samples, character by character.
\* The third one holds the two characters json.dumps escapes.
QuotedCmd == "say \"\\\""
InitChars(c) ==
    CASE c = "cmd1" -> <<"c", "m", "d", "1">>
      [] c = "cmd2" -> <<"c", "m", "d", "2">>
      [] c = QuotedCmd -> <<"c", "\"", "\\", "\"">>
      [] OTHER -> <<c>>

\* The characters of the texts above and of the JSON syntax, with their
\* code points (all ASCII, so str.encode() gives one byte per character).
Chars == {"c", "m", "d", "1", "2", "\"", "\\", "[", "]", ",", " ", "n", "\n"}
Ord(ch) ==
    CASE ch = "c" -> 99 [] ch = "m" -> 109 [] ch = "d" -> 100
      [] ch = "1" -> 49 [] ch = "2" -> 50 [] ch = "\"" -> 34
      [] ch = "\\" -> 92 [] ch = "[" -> 91 [] ch = "]" -> 93
      [] ch = "," -> 44 [] ch = " " -> 32 [] ch = "n" -> 110
      [] ch = "\n" -> 10
Chr(n) == CHOOSE ch \in Chars : Ord(ch) = n

\* str.encode() and bytes.decode() (UTF-8, ASCII only).
str_encode(s) == [k \in 1..Len(s) |-> Ord(s[k])]
bytes_decode(b) == [k \in 1..Len(b) |-> Chr(b[k])]

\* json.dumps of one str: quotes around it, '"' and '\' escaped with '\',
\* a newline written as the two characters '\' and 'n'.
RECURSIVE JsonEscape(_)
JsonEscape(s) ==
    IF s = <<>> THEN <<>>
    ELSE (IF Head(s) \in {"\"", "\\"} THEN <<"\\", Head(s)>>
          ELSE IF Head(s) = "\n" THEN <<"\\", "n">>
          ELSE <<Head(s)>>)
         \o JsonEscape(Tail(s))
JsonString_unescaped(s) == <<"\"">> \o s \o <<"\"">>
JsonString(s) == <<"\"">> \o JsonEscape(s) \o <<"\"">>

\* json.dumps of a list of str: the items separated by ", " in brackets.
RECURSIVE JsonItems(_)
JsonItems(l) ==
    IF l = <<>> THEN <<>>
    ELSE IF Len(l) = 1 THEN JsonString(l[1])
    ELSE JsonString(l[1]) \o <<",", " ">> \o JsonItems(Tail(l))
json_dumps(l) == <<"[">> \o JsonItems(l) \o <<"]">>

\* json.loads on a list of str: a string runs up to its closing quote, a
\* backslash makes the next character literal, and '\' 'n' is a newline.
RECURSIVE JsonReadString(_, _, _)
JsonReadString(s, k, acc) ==
    IF k > Len(s) THEN [val |-> acc, next |-> k]
    ELSE IF s[k] = "\"" THEN [val |-> acc, next |-> k + 1]
    ELSE IF s[k] = "\\" /\ k + 1 <= Len(s)
    THEN JsonReadString(s, k + 2,
                        Append(acc, IF s[k + 1] = "n" THEN "\n" ELSE s[k + 1]))
    ELSE JsonReadString(s, k + 1, Append(acc, s[k]))
RECURSIVE JsonReadItems(_, _, _)
JsonReadItems(s, k, acc) ==
    IF k > Len(s) \/ s[k] = "]" THEN acc
    ELSE IF s[k] = "\""
    THEN LET r == JsonReadString(s, k + 1, <<>>)
         IN JsonReadItems(s, r.next, Append(acc, r.val))
    ELSE JsonReadItems(s, k + 1, acc)
json_loads(s) == JsonReadItems(s, 2, <<>>)

\* The base64 alphabet and its padding character.
B64Alphabet ==
    <<"A", "B", "C", "D", "E", "F", "G", "H", "I", "J", "K", "L", "M", "N",
      "O", "P", "Q", "R", "S", "T", "U", "V", "W", "X", "Y", "Z", "a", "b",
      "c", "d", "e", "f", "g", "h", "i", "j", "k", "l", "m", "n", "o", "p",
      "q", "r", "s", "t", "u", "v", "w", "x", "y", "z", "0", "1", "2", "3",
      "4", "5", "6", "7", "8", "9", "+", "/">>
B64Pad == "="
B64Char(n) == B64Alphabet[n + 1]
B64Index(ch) == (CHOOSE k \in 1..64 : B64Alphabet[k] = ch) - 1

\* base64.b64encode: three bytes give four characters; a rest of one or
\* two bytes is padded with "=".
RECURSIVE b64encode(_)
b64encode(b) ==
    IF b = <<>> THEN <<>>
    ELSE IF Len(b) = 1 THEN
      <<B64Char(b[1] \div 4), B64Char((b[1] % 4) * 16), B64Pad, B64Pad>>
    ELSE IF Len(b) = 2 THEN
      <<B64Char(b[1] \div 4), B64Char((b[1] % 4) * 16 + b[2] \div 16),
        B64Char((b[2] % 16) * 4), B64Pad>>
    ELSE
      <<B64Char(b[1] \div 4), B64Char((b[1] % 4) * 16 + b[2] \div 16),
        B64Char((b[2] % 16) * 4 + b[3] \div 64), B64Char(b[3] % 64)>>
      \o b64encode(SubSeq(b, 4, Len(b)))

\* base64.b64decode: four characters give three bytes, fewer where the
\* group ends in padding.
RECURSIVE b64decode(_)
b64decode(t) ==
    IF Len(t) < 4 THEN <<>>
    ELSE LET a == B64Index(t[1])
             b == B64Index(t[2])
             first == a * 4 + b \div 16
         IN (IF t[3] = B64Pad THEN <<first>>
             ELSE LET c == B64Index(t[3])
                      second == (b % 16) * 16 + c \div 4
                  IN IF t[4] = B64Pad THEN <<first, second>>
                     ELSE <<first, second, (c % 4) * 64 + B64Index(t[4])>>)
            \o b64decode(SubSeq(t, 5, Len(t)))

\* encode_init_commands(init_list) and decode_init_commands(encoded).
encode_init_commands(init_list) == b64encode(str_encode(json_dumps(init_list)))
decode_init_commands(encoded) == json_loads(bytes_decode(b64decode(encoded)))

\* The init list of an AgentConfig as list of str.
RECURSIVE InitList(_)
InitList(l) ==
    IF l = <<>> THEN <<>> ELSE <<InitChars(Head(l))>> \o InitList(Tail(l))

\* ------------------------------------------------------------------------
\* Options of a container run
\* ------------------------------------------------------------------------
\* work_dir is None
NoDir == ""
\* The stream settings a handler starts with, and no work_dir yet.
DefaultOptions == [work_dir |-> NoDir, stream |-> TRUE, stream_raw |-> FALSE]

\* The flag loop of cmd_direct_prompt, from the (1-based) index k on.
RECURSIVE DirectOptions(_, _, _)
DirectOptions(flags, k, st) ==
    IF k > Len(flags) THEN st
    ELSE LET flag == flags[k] IN
      IF flag \in DirTokens /\ k + 1 <= Len(flags)
      THEN DirectOptions(flags, k + 2, [st EXCEPT !.work_dir = flags[k + 1]])
      ELSE IF flag \in DirEqTokens
      THEN DirectOptions(flags, k + 1, [st EXCEPT !.work_dir = DirEqValue(flag)])
      ELSE IF flag = "-s"
      THEN DirectOptions(flags, k + 1, [st EXCEPT !.stream = TRUE])
      ELSE IF flag = "-sj"
      THEN DirectOptions(flags, k + 1, [st EXCEPT !.stream = TRUE, !.stream_raw = TRUE])
      ELSE IF flag = "--no-stream"
      THEN DirectOptions(flags, k + 1, [st EXCEPT !.stream = FALSE, !.stream_raw = FALSE])
      ELSE DirectOptions(flags, k + 1, st)

\* One iteration of the stream loops of the agent handlers on a flag.
StreamStep(flag, st) ==
    IF flag = "--no-stream" THEN [st EXCEPT !.stream = FALSE, !.stream_raw = FALSE]
    ELSE IF flag = "-s" THEN [st EXCEPT !.stream = TRUE]
    ELSE IF flag = "-sj" THEN [st EXCEPT !.stream = TRUE, !.stream_raw = TRUE]
    ELSE st

\* The loop over global_flags of cmd_agent_run and of cmd_agent.
RECURSIVE StreamOptions(_, _, _)
StreamOptions(flags, k, st) ==
    IF k > Len(flags) THEN st
    ELSE StreamOptions(flags, k + 1, StreamStep(flags[k], st))

\* The stream settings of an agent run.  cmd_agent_run reads the flags it
\* picked from sys.argv; cmd_agent reads global_flags and then the tokens
\* of args_list in front of the agent name.
AgentOptions(im, args, o) ==
    IF im = "argparse" THEN StreamOptions(o.flags, 1, DefaultOptions)
    ELSE LET args_list == ManualMain(args).rest
             j == AgentNameIndex(args_list, 1)
         IN StreamOptions(o.flags \o SubSeq(args_list, 1, j - 1), 1, DefaultOptions)

\* os.getcwd()
Cwd == <<"/", "c">>
\* The text of a directory token of the command line.
DirText(tok) ==
    CASE tok = "/a" -> <<"/", "a">>
      [] tok = "/a/w" -> <<"/", "a", "/", "w">>
      [] OTHER -> <<tok>>

\* Path(p).name: the final component, trailing slashes dropped.
RECURSIVE PathName(_)
PathName(p) ==
    IF p = <<>> THEN <<>>
    ELSE IF p[Len(p)] = "/" THEN PathName(SubSeq(p, 1, Len(p) - 1))
    ELSE <<p[Len(p)]>>

\* ------------------------------------------------------------------------
\* build_docker_args and run_container
\* ------------------------------------------------------------------------
\* What a handler finds outside the process: where the OAuth token is
\* ("env": CLAUDE_CODE_OAUTH_TOKEN, "file": TOKEN_FILE, "none"), whether
\* CREDENTIALS exists, whether C3PO_DEBUG is set.
Surroundings ==
    [token : {"none", "env", "file"}, creds : BOOLEAN, debug : BOOLEAN]

\* The prompt of every agent run.
AgentPrompt == <<"/c3po auto">>

\* "-e", "KEY=VALUE" for each item of agent_env; the values of the samples
\* are strings.
RECURSIVE EnvArgs(_, _)
EnvArgs(f, keys) ==
    IF keys = {} THEN <<>>
    ELSE LET key == CHOOSE x \in keys : TRUE
         IN <<(<<"-e">>), <<key, "=">> \o f[key].v>> \o EnvArgs(f, keys \ {key})

\* The claude arguments of build_docker_args for a prompt, and a variant
\* for agents that keeps the prompt it was called with.
ClaudeArgs(prompt, agent_model, stream, stream_raw) ==
    (IF stream \/ stream_raw
     THEN <<(<<"--output-format">>), <<"stream-json">>, <<"--verbose">>, <<"-p">>, prompt>>
     ELSE <<(<<"-p">>), prompt>>)
    \o (IF Falsy(agent_model) THEN <<>> ELSE <<(<<"--model">>), agent_model.v>>)

\* build_docker_args: run --rm --name <container>, the -e arguments, the
\* mounts, the image and the claude arguments.  An argument is a text.
\* claude_docker.py also mounts DOCKER_YAML_CONFIG.
DockerArgs(im, prompt, work_dir, project_name, agent_mode, agent_model, agent_env, agent_init, stream, stream_raw, around, keepPrompt) ==
    LET mounts ==
          <<(<<"-v">>), <<"CONFIG_DIR", ":/home/node/.claude">>,
            (<<"-v">>), work_dir \o <<":/workspace">> >>
          \o (IF around.creds
              THEN <<(<<"-v">>), <<"CREDENTIALS", ":/home/node/.claude/.credentials.json:ro">> >>
              ELSE <<>>)
          \o (IF im = "argparse"
              THEN <<(<<"-v">>), <<"DOCKER_YAML_CONFIG", ":/home/node/claude-docker.yaml">> >>
              ELSE <<>>)
          \o <<(<<"-v">>), <<"USER_CONFIG", ":/home/node/.claude.json">> >>
        env_args ==
          <<(<<"-e">>), <<"CLAUDE_PROJECT_NAME", "=">> \o project_name>>
          \o (IF agent_mode THEN <<(<<"-e">>), <<"CLAUDE_AGENT_MODE", "=", "1">> >> ELSE <<>>)
          \o (IF around.token # "none"
              THEN <<(<<"-e">>), <<"CLAUDE_CODE_OAUTH_TOKEN", "=", "tok">> >>
              ELSE <<>>)
          \o (IF around.debug THEN <<(<<"-e">>), <<"C3PO_DEBUG", "=", "1">> >> ELSE <<>>)
          \o EnvArgs(agent_env.v, DOMAIN agent_env.v)
          \o (IF Falsy(agent_init) THEN <<>>
              ELSE <<(<<"-e">>),
                     <<"AGENT_INIT", "=">> \o encode_init_commands(InitList(agent_init.v))>>)
        p == IF agent_mode /\ ~keepPrompt THEN AgentPrompt ELSE prompt
    IN <<(<<"run">>), <<"--rm">>, <<"--name">>, <<"claude-code-", "pid">> >>
       \o env_args \o mounts \o <<(<<"claude-code">>)>>
       \o ClaudeArgs(p, agent_model, stream, stream_raw)

build_docker_args_keeping_prompt(im, prompt, work_dir, project_name, agent_mode, agent_model, agent_env, agent_init, stream, stream_raw, around) ==
    DockerArgs(im, prompt, work_dir, project_name, agent_mode, agent_model, agent_env, agent_init, stream, stream_raw, around, TRUE)
build_docker_args(im, prompt, work_dir, project_name, agent_mode, agent_model, agent_env, agent_init, stream, stream_raw, around) ==
    DockerArgs(im, prompt, work_dir, project_name, agent_mode, agent_model, agent_env, agent_init, stream, stream_raw, around, FALSE)

\* run_container pipes the container's output through format-stream when
\* stream and not stream_raw.
UsesFormatStream(stream, stream_raw) == stream /\ ~stream_raw

\* ------------------------------------------------------------------------
\* A process, from main() to the container it runs
\* ------------------------------------------------------------------------
\* Most global flags in front of the prompt or of the subcommand.
MaxFlags == 2

\* A global flag as written on the command line, with its value if it
\* takes one.
FlagUnits ==
    {<<"-d", "/a/w">>, <<"--dir", "/a/w">>, <<"--dir=/a">>, <<"-d=/a">>,
     <<"-s">>, <<"-sj">>, <<"--no-stream">>, <<"-b">>}

RECURSIVE FlagPrefixes(_)
FlagPrefixes(n) ==
    IF n = 0 THEN {<<>>}
    ELSE LET shorter == FlagPrefixes(n - 1)
         IN shorter \cup {f \o u : f \in shorter, u \in FlagUnits}

\* What follows the global flags: nothing, a prompt, or the agent
\* subcommand in the forms "agent <name>" and "agent run <name>", for a name
\* the files below define (notes) and for one they do not (coder), and an
\* agent run with --once.
Bodies ==
    {<<>>, <<"-p", "hello">>, <<"-p", "-sj">>, <<"hello", "world">>,
     <<"agent", "list">>, <<"agent", "notes">>, <<"agent", "run", "notes">>,
     <<"agent", "-sj", "notes">>, <<"agent", "notes", "hello">>,
     <<"agent", "coder">>, <<"agent", "run", "coder">>,
     <<"agent", "run", "notes", "--once">>}

LaunchArgLists == {f \o b : f \in FlagPrefixes(MaxFlags), b \in Bodies}

\* An env with two keys and an init list with a command that needs escaping.
TwoKeyEnv == DictV([VAR |-> StrV(<<"value">>), KEY |-> StrV(<<"v", "2">>)])
QuotedInit == ListV(<<"cmd1", QuotedCmd>>)

\* agents.yaml as found by an agent command: missing, an empty document, or
\* with an entry for notes in shorthand or in block form.
LaunchAgentFiles ==
    {MissingFile, FileOf(<<>>),
     FileOf(<<Line("notes", StrV(TildePath))>>),
     FileOf(<<Line("notes", DictOf([workspace |-> StrV(PlainPath), model |-> OpusModel,
                                    env |-> SampleEnv, init |-> SampleInit]))>>),
     FileOf(<<Line("notes", DictOf([workspace |-> StrV(TildePath), model |-> Absent,
                                    env |-> TwoKeyEnv, init |-> QuotedInit]))>>),
     FileOf(<<Line("notes", DictOf([workspace |-> StrV(PlainPath), model |-> Absent,
                                    env |-> NoneV, init |-> NoneV]))>>)}

\* The handler returns or exits before it runs a container.
ExitsWith(kind, st, ex) ==
    /\ pc' = "exited" /\ cmd' = kind /\ status' = st /\ exc' = ex
    /\ UNCHANGED <<force, image, force_rebuild, needed, built, build_failed, started,
                   docker_args, format_stream>>

\* The handler has found a runtime.  if force_rebuild or needs_rebuild:
\* the build fails (CalledProcessError), or the image is built; then
\* run_container is called with args.  The processes followed here run
\* without CLAUSE_DOCKER_FORCE_BUILD on a current image, so that they build
\* when they are told to with -b.
Runs(kind, fr, args, fmt) ==
    \E buildOK \in BOOLEAN :
      /\ force_rebuild' = fr
      /\ needed' = (fr \/ needs_rebuild(force, image, dockerfile, entrypoint))
      /\ UNCHANGED force
      /\ cmd' = kind
      /\ IF needed' /\ ~buildOK
         THEN /\ build_failed' = TRUE /\ pc' = "exited" /\ status' = 1
              /\ exc' = "CalledProcessError"
              /\ UNCHANGED <<image, built, started, docker_args, format_stream>>
         ELSE /\ built' = needed'
              /\ image' = IF needed' THEN ImageWith(build_hash(dockerfile, entrypoint))
                          ELSE image
              /\ started' = TRUE /\ pc' = "running"
              /\ docker_args' = args /\ format_stream' = fmt
              /\ UNCHANGED <<build_failed, status, exc>>

\* main() reaches cmd_direct_prompt: it needs a token or credentials and a
\* runtime, reads its flags and runs the container in the work dir.
LaunchDirect ==
    /\ pc = "idle"
    /\ LET o == Dispatch(impl, argv) IN
       /\ o.kind = "direct"
       /\ \E around \in Surroundings, runtimeOK \in BOOLEAN :
            IF around.token = "none" /\ ~around.creds THEN ExitsWith("direct", 1, "")
            ELSE IF ~runtimeOK THEN ExitsWith("direct", 1, "")
            ELSE LET opts == DirectOptions(o.flags, 1, DefaultOptions)
                     work_dir == IF opts.work_dir = NoDir THEN Cwd
                                 ELSE DirText(opts.work_dir)
                 IN Runs("direct", InList("-b", o.flags),
                         build_docker_args(impl, o.prompt, work_dir, PathName(work_dir),
                                           FALSE, NoneV, DictV(EmptyMap), ListV(<<>>),
                                           opts.stream, opts.stream_raw, around),
                         UsesFormatStream(opts.stream, opts.stream_raw))
    /\ UNCHANGED <<impl, argv, dockerfile, entrypoint, agentVars, parseVars, detectVars, restVars>>

\* main() reaches the handler of an agent run: it loads agents.yaml, asks
\* for the agent's config, needs a workspace and a runtime, reads the
\* stream flags and runs the container.
LaunchAgent ==
    /\ pc = "idle"
    /\ LET o == Dispatch(impl, argv)
           data == load_agents(impl, agentsFile)
       IN
       /\ o.kind = "agent-run"
       /\ agents' = data
       /\ prevFile' = agentsFile
       /\ agentsFile' = file_after_load(impl, agentsFile)
       /\ loads' = loads + 1
       /\ query' = o.rest[1]
       /\ IF data.t = "exit" THEN cfg' = NotAsked /\ ExitsWith("agent-run", 1, "")
          ELSE LET c == get_agent_config(impl, o.rest[1], data) IN
            /\ cfg' = c
            /\ IF c.t = "raise" THEN ExitsWith("agent-run", 1, c.v[1])
               ELSE IF c.t = "none" THEN ExitsWith("agent-run", 1, "")
               ELSE IF c.v.workspace = <<>> THEN ExitsWith("agent-run", 1, "")
               ELSE \E around \in Surroundings, runtimeOK \in BOOLEAN :
                 IF ~runtimeOK THEN ExitsWith("agent-run", 1, "")
                 ELSE LET opts == AgentOptions(impl, argv, o) IN
                   Runs("agent-run", InList("-b", o.flags),
                        build_docker_args(impl, <<"">>, c.v.workspace, <<o.rest[1]>>, TRUE,
                                          c.v.model, c.v.env, c.v.init,
                                          opts.stream, opts.stream_raw, around),
                        UsesFormatStream(opts.stream, opts.stream_raw))
    /\ UNCHANGED <<impl, argv, dockerfile, entrypoint, parseVars, detectVars, restVars>>

\* main() ends without a container: help, a usage or parse error, or the
\* list of the agents.
NoLaunch ==
    /\ pc = "idle"
    /\ LET o == Dispatch(impl, argv)
           data == load_agents(impl, agentsFile)
       IN
       /\ o.kind \in {"help", "usage", "error", "nocommand", "agent-help", "agent-list"}
       /\ IF o.kind = "agent-list"
          THEN /\ agents' = data
               /\ prevFile' = agentsFile
               /\ agentsFile' = file_after_load(impl, agentsFile)
               /\ loads' = loads + 1
               /\ UNCHANGED <<query, cfg>>
               /\ IF data.t = "exit" THEN ExitsWith(o.kind, 1, "")
                  ELSE IF data.t # "dict" THEN ExitsWith(o.kind, 1, "AttributeError")
                  ELSE ExitsWith(o.kind, 0, "")
          ELSE /\ UNCHANGED agentVars
               /\ ExitsWith(o.kind,
                            CASE o.kind = "help" -> 0 [] o.kind = "usage" -> 1 [] OTHER -> 2,
                            "")
    /\ UNCHANGED <<impl, argv, dockerfile, entrypoint, parseVars, detectVars, restVars>>

\* run_container returns the return code of the run (of format-stream when
\* the output is piped through it).
LaunchEnds ==
    /\ pc = "running"
    /\ \E rc \in {0, 1} : status' = rc
    /\ pc' = "exited"
    /\ UNCHANGED <<impl, argv, force, dockerfile, entrypoint, image, cmd, force_rebuild,
                   needed, built, build_failed, started, exc>>
    /\ UNCHANGED <<agentVars, moreVars>>

InitLaunch ==
    /\ impl \in Impls
    /\ argv \in LaunchArgLists
    /\ force = Unset /\ pc = "idle" /\ cmd = "none"
    /\ force_rebuild = FALSE /\ needed = FALSE /\ built = FALSE
    /\ build_failed = FALSE /\ started = FALSE /\ status = -1 /\ exc = ""
    /\ dockerfile = <<"x">>
    /\ entrypoint = <<>>
    /\ image = ImageWith(build_hash(dockerfile, entrypoint))
    /\ agentsFile \in (IF InList("agent", argv) THEN LaunchAgentFiles ELSE {MissingFile})
    /\ AgentsIdle
    /\ ParseIdle /\ LaunchIdle /\ DetectIdle /\ RestIdle

NextLaunch ==
    \/ LaunchDirect
    \/ LaunchAgent
    \/ NoLaunch
    \/ LaunchEnds

SpecLaunch == InitLaunch /\ [][NextLaunch]_vars

\* ------------------------------------------------------------------------
\* Properties of the container arguments
\* ------------------------------------------------------------------------
\* The argument that follows the first flag of the arguments (<<>> when the
\* flag is not among them).
ArgAfter(args, flag) ==
    LET at == {k \in 1..(Len(args) - 1) : args[k] = flag}
    IN IF at = {} THEN <<>>
       ELSE args[(CHOOSE k \in at : \A other \in at : k <= other) + 1]

\* The arguments that follow a "-e".
EnvPositions(args) == {k \in 2..Len(args) : args[k - 1] = <<"-e">>}
HasEnv(args, text) == \E k \in EnvPositions(args) : args[k] = text
\* Among them, those that set AGENT_INIT.
InitPositions(args) == {k \in EnvPositions(args) : args[k][1] = "AGENT_INIT"}

\* The handler of an agent run has called run_container.
AgentStarted == cmd = "agent-run" /\ started

\* C11: an agent is run unattended: the prompt of the container is the
\* preset "/c3po auto" whatever the command line holds, the container gets
\* CLAUDE_AGENT_MODE=1 and CLAUDE_PROJECT_NAME=<agent name>, -e KEY=VALUE
\* for every key of the agent's env, and, when the agent's init list is not
\* empty, one AGENT_INIT whose decoding is that list in order (no AGENT_INIT
\* when it is empty).
C11_AgentRunUnattended ==
    AgentStarted =>
      /\ ArgAfter(docker_args, <<"-p">>) = AgentPrompt
      /\ HasEnv(docker_args, <<"CLAUDE_AGENT_MODE", "=", "1">>)
      /\ HasEnv(docker_args, <<"CLAUDE_PROJECT_NAME", "=", query>>)
      /\ \A key \in DOMAIN cfg.v.env.v :
           HasEnv(docker_args, <<key, "=">> \o cfg.v.env.v[key].v)
      /\ IF cfg.v.init.v = <<>> THEN InitPositions(docker_args) = {}
         ELSE /\ Cardinality(InitPositions(docker_args)) = 1
              /\ \A k \in InitPositions(docker_args) :
                   decode_init_commands(SubSeq(docker_args[k], 3, Len(docker_args[k])))
                     = InitList(cfg.v.init.v)

\* An agent with two env keys and an init list that needs escaping runs,
\* started with a word after its name on the command line.
C11_Witness ==
    /\ AgentStarted
    /\ InList("hello", argv)
    /\ DOMAIN cfg.v.env.v = {"VAR", "KEY"}
    /\ cfg.v.init = QuotedInit

\* ------------------------------------------------------------------------
\* detect_runtime
\* ------------------------------------------------------------------------
\* Most detect_runtime() calls of one process.
MaxCalls == 4

\* The executables "which" is asked for.
Executables == {"docker", "finch"}

\* _detect_runtime(), and detect_runtime() of claude-docker.py: docker if
\* "which docker" succeeds, else finch if "which finch" does, else
\* sys.exit(1).
DetectOnPath(on_path) ==
    IF "docker" \in on_path THEN "docker"
    ELSE IF "finch" \in on_path THEN "finch"
    ELSE "exit 1"

\* detect_runtime() of the script im with on_path on the search path.
\* claude_docker.py returns claude_docker.runtime, the property that keeps
\* in _runtime what the first search found.
detect_runtime(im, cache, on_path) ==
    IF im = "argparse" /\ cache # "" THEN cache ELSE DetectOnPath(on_path)

\* The process calls detect_runtime(); what is on the search path then is
\* up to the surroundings.  After sys.exit(1) there is no further call.
DetectRuntime ==
    /\ Len(detect_log) < MaxCalls
    /\ IF detect_log = <<>> THEN TRUE
       ELSE detect_log[Len(detect_log)].returned # "exit 1"
    /\ \E on_path \in SUBSET Executables :
         LET r == detect_runtime(impl, runtime_cache, on_path) IN
         /\ detect_log' = Append(detect_log, [on_path |-> on_path, returned |-> r])
         /\ runtime_cache' = IF impl = "argparse" /\ r # "exit 1" THEN r ELSE runtime_cache
    /\ UNCHANGED <<impl, runVars, agentVars, parseVars, launchVars, restVars>>

InitDetect ==
    /\ impl \in Impls
    /\ RunIdle
    /\ dockerfile = <<"x">>
    /\ entrypoint = <<>>
    /\ image = NoImage
    /\ agentsFile = MissingFile
    /\ AgentsIdle
    /\ ParseIdle /\ LaunchIdle /\ DetectIdle /\ RestIdle

NextDetect == DetectRuntime

SpecDetect == InitDetect /\ [][NextDetect]_vars

\* C12 as written: every detect_runtime() call of a process answers for the
\* search path as it is at that call, whatever an earlier call returned:
\* docker if docker is found, finch if only finch is found, exit status 1 if
\* neither is.
C12_DetectsAtEachCall ==
    \A k \in DOMAIN detect_log :
      detect_log[k].returned = DetectOnPath(detect_log[k].on_path)

\* A second call was made after the search path lost docker.
C12_Witness ==
    /\ Len(detect_log) >= 2
    /\ "docker" \in detect_log[1].on_path
    /\ "docker" \notin detect_log[2].on_path

\* ------------------------------------------------------------------------
\* Properties of the command line
\* ------------------------------------------------------------------------
\* main() has dispatched (or ended).
Dispatched == pc # "idle"

\* The words the help lists as subcommands.
SubcommandNames == {"setup", "setup-c3po", "shell", "agent", "clean-logs"}

\* A command line as the help describes it, read from the token k on:
\* global flags (the value of -d/--dir skipped with its flag), then either
\* "-p <prompt>", or a word that is no subcommand name, which starts the
\* prompt, or a subcommand.  "kind" says which, "prompt" is the prompt asked
\* for, "at" the position of the subcommand.
RECURSIVE AskedFor(_, _)
AskedFor(args, k) ==
    IF k > Len(args) THEN [kind |-> "nothing", prompt |-> <<>>, at |-> 0]
    ELSE IF args[k] \in DirTokens /\ k + 1 <= Len(args) THEN AskedFor(args, k + 2)
    ELSE IF args[k] = "-p" /\ k + 1 <= Len(args)
    THEN [kind |-> "prompt", prompt |-> <<args[k + 1]>>, at |-> 0]
    ELSE IF StartsWithDash(args[k]) THEN AskedFor(args, k + 1)
    ELSE IF args[k] \in SubcommandNames THEN [kind |-> args[k], prompt |-> <<>>, at |-> k]
    ELSE [kind |-> "prompt", prompt |-> JoinSpace(From(args, k)), at |-> 0]

RECURSIVE DirAsked(_, _, _)
DirAsked(args, k, cur) ==
    IF k > Len(args) THEN cur
    ELSE IF args[k] \in DirTokens /\ k + 1 <= Len(args)
    THEN DirAsked(args, k + 2, args[k + 1])
    ELSE IF args[k] \in DirEqTokens THEN DirAsked(args, k + 1, DirEqValue(args[k]))
    ELSE IF args[k] = "-p" /\ k + 1 <= Len(args) THEN cur
    ELSE IF StartsWithDash(args[k]) THEN DirAsked(args, k + 1, cur)
    ELSE cur

\* The arguments mount the directory dir at /workspace.
MountsAtWorkspace(args, dir) ==
    \E k \in 2..Len(args) : args[k - 1] = <<"-v">> /\ args[k] = dir \o <<":/workspace">>

\* cmd_direct_prompt has called run_container.
DirectStarted == cmd = "direct" /\ started

\* C14 as written: in direct prompt mode -d PATH (also --dir PATH,
\* --dir=PATH, -d=PATH) makes PATH the directory mounted at /workspace and
\* the final component of PATH the project name; the current directory is
\* used only when no such flag is given.
C14_DirFlagSetsWorkDir ==
    DirectStarted =>
      LET asked == DirAsked(argv, 1, NoDir)
          dir == IF asked = NoDir THEN Cwd ELSE DirText(asked)
      IN /\ MountsAtWorkspace(docker_args, dir)
         /\ HasEnv(docker_args, <<"CLAUDE_PROJECT_NAME", "=">> \o PathName(dir))

\* A direct prompt runs that was started with -d /a/w.
C14_Witness ==
    /\ DirectStarted
    /\ Len(argv) >= 2
    /\ argv[1] = "-d" /\ argv[2] = "/a/w"

\* C15 as written: as the help example "claude-docker -d /path agent notes"
\* states, a -d PATH in front of the agent subcommand makes the agent run
\* with PATH mounted at /workspace.
C15_DirFlagSetsAgentDir ==
    (AgentStarted /\ DirAsked(argv, 1, NoDir) # NoDir) =>
      MountsAtWorkspace(docker_args, DirText(DirAsked(argv, 1, NoDir)))

\* The agent notes runs, started as "-d /a/w agent notes".
C15_Witness ==
    /\ AgentStarted
    /\ argv = <<"-d", "/a/w", "agent", "notes">>

\* The last stream flag (-s, -sj, --no-stream) among the global flags of a
\* command line, read from the token k on (last when there is none).
RECURSIVE StreamAsked(_, _, _)
StreamAsked(args, k, last) ==
    IF k > Len(args) THEN last
    ELSE IF args[k] \in DirTokens /\ k + 1 <= Len(args) THEN StreamAsked(args, k + 2, last)
    ELSE IF args[k] \in {"-s", "-sj", "--no-stream"} THEN StreamAsked(args, k + 1, args[k])
    ELSE IF args[k] = "-p" /\ k + 1 <= Len(args) THEN last
    ELSE IF StartsWithDash(args[k]) THEN StreamAsked(args, k + 1, last)
    ELSE last

\* claude is asked for stream-json output.
RequestsStreamJson(args) == ArgAfter(args, <<"--output-format">>) = <<"stream-json">>

\* C16 as written: with no stream flag or with -s the output of the
\* container is piped through format-stream; with -sj the raw stream-json
\* is passed on without the filter; with --no-stream neither
\* "--output-format stream-json" is requested nor the filter used; of
\* several stream flags the last one decides.
C16_LastStreamFlagDecides ==
    DirectStarted =>
      LET asked == StreamAsked(argv, 1, "-s") IN
      /\ asked = "-s" => format_stream /\ RequestsStreamJson(docker_args)
      /\ asked = "-sj" => ~format_stream /\ RequestsStreamJson(docker_args)
      /\ asked = "--no-stream" => ~format_stream /\ ~RequestsStreamJson(docker_args)

\* A direct prompt runs that was started with -sj and then -s.
C16_Witness ==
    /\ DirectStarted
    /\ argv = <<"-sj", "-s", "-p", "hello">>

\* ------------------------------------------------------------------------
\* src/claude-docker.py: the token loops of main() and cmd_agent, step by
\* step
\* ------------------------------------------------------------------------
\* Tokens the argument lists of the parser are drawn from.
ParserTokens ==
    {"-h", "-d", "--dir=/a", "-s", "-sj", "-p", "--once", "setup", "setup-c3po",
     "shell", "agent", "list", "notes"}
ParserArgLists == SeqsUpTo(ParserTokens, MaxArgs)

\* What one iteration of the while loop of main() does with cmd_args[i]
\* (i counts from 0, as in the source): it goes on with the loop at index n
\* ("main"), returns ("done") or breaks ("break").  marks says what it took
\* each token it read for.  byDir is what the -d branch with a value adds to
\* i, byFlag what the branch of an unknown flag adds.
MainBody(args, i, gf, byDir, byFlag) ==
    LET arg == args[i + 1]
        hasNext == i + 1 < Len(args)
        goesOn(n, flags, marks) ==
          [next |-> "main", i |-> n, gf |-> flags, subcommand |-> "",
           subcommand_args |-> <<>>, handler |-> "none", prompt |-> <<>>, marks |-> marks]
        returns(handler, prompt, flags, rest, marks) ==
          [next |-> "done", i |-> i, gf |-> flags, subcommand |-> "",
           subcommand_args |-> rest, handler |-> handler, prompt |-> prompt, marks |-> marks]
        breaks(sub) ==
          [next |-> "break", i |-> i, gf |-> gf, subcommand |-> sub,
           subcommand_args |-> From(args, i + 2), handler |-> "none", prompt |-> <<>>,
           marks |-> {<<i + 1, "subcommand">>}]
    IN
    IF arg \in HelpTokens THEN returns("help", <<>>, gf, <<>>, {<<i + 1, "flag">>})
    ELSE IF arg \in DirTokens THEN
      IF hasNext
      THEN goesOn(i + byDir, gf \o <<arg, args[i + 2]>>, {<<i + 1, "flag">>, <<i + 2, "value">>})
      ELSE goesOn(i + 1, Append(gf, arg), {<<i + 1, "flag">>})
    ELSE IF arg \in DirEqTokens THEN goesOn(i + 1, Append(gf, arg), {<<i + 1, "flag">>})
    ELSE IF arg \in StreamBuildTokens THEN goesOn(i + 1, Append(gf, arg), {<<i + 1, "flag">>})
    ELSE IF arg = "-p" THEN
      IF hasNext
      THEN returns("direct", <<args[i + 2]>>, gf \o <<arg, args[i + 2]>>, From(args, i + 3),
                   {<<i + 1, "flag">>, <<i + 2, "value">>})
      ELSE goesOn(i + 1, Append(gf, arg), {<<i + 1, "flag">>})
    ELSE IF arg \in {"setup", "shell"} THEN breaks(arg)
    ELSE IF arg = "setup-c3po" THEN breaks("setup-c3po")
    ELSE IF arg = "agent" THEN breaks("agent")
    ELSE IF StartsWithDash(arg) THEN goesOn(i + byFlag, Append(gf, arg), {<<i + 1, "flag">>})
    ELSE returns("direct", JoinSpace(From(args, i + 1)), gf, <<>>,
                 {<<k, "prompt">> : k \in (i + 1)..Len(args)})

\* Two faulty variants of the iteration: one in which "-d PATH" moves on by
\* one token only, one in which an unknown flag does not move on.
MainIteration_dir_by_one(args, i, gf) == MainBody(args, i, gf, 1, 1)
MainIteration_flag_stays(args, i, gf) == MainBody(args, i, gf, 2, 0)
MainIteration(args, i, gf) == MainBody(args, i, gf, 2, 1)

\* The bookkeeping of a loop that starts on a list, and of an iteration
\* that examined the positions at.
Unread(list) == [k \in 1..Len(list) |-> 0]
Examined(at) == [k \in DOMAIN reads |-> IF k \in at THEN reads[k] + 1 ELSE reads[k]]

\* The lists the three loops walk.
Loops == {"main", "agent_flags", "agent_name"}
LoopList ==
    CASE loop = "main" -> argv
      [] loop = "agent_flags" -> global_flags
      [] loop = "agent_name" -> subcommand_args
      [] OTHER -> <<>>

\* One iteration of the while loop of main(), with what main() does after
\* a break: it calls the handler of the subcommand (setup-c3po with fewer
\* than two arguments is a usage error); cmd_agent starts with its loop
\* over global_flags.
MainStep ==
    /\ loop = "main"
    /\ idx < Len(argv)
    /\ LET r == MainIteration(argv, idx, global_flags)
           shortC3po == r.subcommand = "setup-c3po" /\ Len(r.subcommand_args) < 2
       IN
       /\ idx' = IF r.subcommand = "agent" THEN 0 ELSE r.i
       /\ global_flags' = r.gf
       /\ subcommand' = r.subcommand
       /\ subcommand_args' = r.subcommand_args
       /\ prompt_given' = r.prompt
       /\ classes' = [k \in DOMAIN classes |->
                        classes[k] \cup {m[2] : m \in {x \in r.marks : x[1] = k}}]
       /\ loop' = IF r.next = "main" THEN "main"
                  ELSE IF r.subcommand = "agent" THEN "agent_flags"
                  ELSE "done"
       /\ reads' = IF r.subcommand = "agent" THEN Unread(global_flags)
                   ELSE Examined({m[1] : m \in r.marks})
       /\ iterations' = IF r.subcommand = "agent" THEN 0 ELSE iterations + 1
       /\ cmd' = IF r.next = "main" THEN cmd
                 ELSE IF r.next = "done" THEN r.handler
                 ELSE IF shortC3po THEN "usage"
                 ELSE r.subcommand
       /\ status' = IF r.handler = "help" THEN 0 ELSE IF shortC3po THEN 1 ELSE status
    /\ UNCHANGED <<impl, argv, force, dockerfile, entrypoint, image, pc, force_rebuild,
                   needed, built, build_failed, started, exc>>
    /\ UNCHANGED <<agent_stream, agent_stream_raw, agent_name>>
    /\ UNCHANGED <<agentVars, launchVars, detectVars, restVars>>

\* The loop of main() has run out of tokens: subcommand is None, main()
\* prints the help and returns 1.
MainEnds ==
    /\ loop = "main"
    /\ idx >= Len(argv)
    /\ loop' = "done"
    /\ cmd' = "usage"
    /\ status' = 1
    /\ UNCHANGED <<impl, argv, force, dockerfile, entrypoint, image, pc, force_rebuild,
                   needed, built, build_failed, started, exc>>
    /\ UNCHANGED <<idx, global_flags, subcommand, subcommand_args, prompt_given,
                   agent_stream, agent_stream_raw, agent_name, classes, reads, iterations>>
    /\ UNCHANGED <<agentVars, launchVars, detectVars, restVars>>

\* One iteration of the loop of cmd_agent over global_flags.
AgentFlagsStep ==
    /\ loop = "agent_flags"
    /\ idx < Len(global_flags)
    /\ LET st == StreamStep(global_flags[idx + 1],
                            [DefaultOptions EXCEPT !.stream = agent_stream,
                                                   !.stream_raw = agent_stream_raw])
       IN agent_stream' = st.stream /\ agent_stream_raw' = st.stream_raw
    /\ idx' = idx + 1
    /\ reads' = Examined({idx + 1})
    /\ iterations' = iterations + 1
    /\ UNCHANGED <<impl, runVars, agentVars, launchVars, detectVars, restVars>>
    /\ UNCHANGED <<loop, global_flags, subcommand, subcommand_args, prompt_given,
                   agent_name, classes>>

\* That loop is over: without arguments cmd_agent returns 1 with its usage,
\* "list" lists the agents, anything else starts the search for the name.
AgentFlagsEnd ==
    /\ loop = "agent_flags"
    /\ idx >= Len(global_flags)
    /\ IF subcommand_args = <<>>
       THEN /\ loop' = "done" /\ cmd' = "usage" /\ status' = 1
            /\ UNCHANGED <<idx, reads, iterations>>
       ELSE IF subcommand_args[1] = "list"
       THEN /\ loop' = "done" /\ cmd' = "agent-list"
            /\ UNCHANGED <<idx, reads, iterations, status>>
       ELSE /\ loop' = "agent_name" /\ idx' = 0 /\ reads' = Unread(subcommand_args)
            /\ iterations' = 0
            /\ UNCHANGED <<cmd, status>>
    /\ UNCHANGED <<impl, argv, force, dockerfile, entrypoint, image, pc, force_rebuild,
                   needed, built, build_failed, started, exc>>
    /\ UNCHANGED <<global_flags, subcommand, subcommand_args, prompt_given, agent_stream,
                   agent_stream_raw, agent_name, classes>>
    /\ UNCHANGED <<agentVars, launchVars, detectVars, restVars>>

\* One iteration of the loop of cmd_agent over args_list: a flag is read
\* and passed, the first other token is the agent name and ends the loop.
AgentNameStep ==
    /\ loop = "agent_name"
    /\ idx < Len(subcommand_args)
    /\ LET arg == subcommand_args[idx + 1]
           st == StreamStep(arg, [DefaultOptions EXCEPT !.stream = agent_stream,
                                                        !.stream_raw = agent_stream_raw])
       IN IF StartsWithDash(arg)
          THEN /\ agent_stream' = st.stream /\ agent_stream_raw' = st.stream_raw
               /\ idx' = idx + 1
               /\ UNCHANGED <<loop, cmd, agent_name>>
          ELSE /\ agent_name' = arg
               /\ loop' = "done" /\ cmd' = "agent-run"
               /\ UNCHANGED <<agent_stream, agent_stream_raw, idx>>
    /\ reads' = Examined({idx + 1})
    /\ iterations' = iterations + 1
    /\ UNCHANGED <<impl, argv, force, dockerfile, entrypoint, image, pc, force_rebuild,
                   needed, built, build_failed, started, status, exc>>
    /\ UNCHANGED <<global_flags, subcommand, subcommand_args, prompt_given, classes>>
    /\ UNCHANGED <<agentVars, launchVars, detectVars, restVars>>

\* The while-else of that loop: no agent name, cmd_agent returns 1 with its
\* usage.
AgentNameEnds ==
    /\ loop = "agent_name"
    /\ idx >= Len(subcommand_args)
    /\ loop' = "done"
    /\ cmd' = "usage"
    /\ status' = 1
    /\ UNCHANGED <<impl, argv, force, dockerfile, entrypoint, image, pc, force_rebuild,
                   needed, built, build_failed, started, exc>>
    /\ UNCHANGED <<idx, global_flags, subcommand, subcommand_args, prompt_given,
                   agent_stream, agent_stream_raw, agent_name, classes, reads, iterations>>
    /\ UNCHANGED <<agentVars, launchVars, detectVars, restVars>>

InitParser ==
    /\ impl = "manual"
    /\ argv \in ParserArgLists
    /\ force = Unset /\ pc = "idle" /\ cmd = "none"
    /\ force_rebuild = FALSE /\ needed = FALSE /\ built = FALSE
    /\ build_failed = FALSE /\ started = FALSE /\ status = -1 /\ exc = ""
    /\ dockerfile = <<"x">>
    /\ entrypoint = <<>>
    /\ image = NoImage
    /\ agentsFile = MissingFile
    /\ AgentsIdle
    /\ loop = "main" /\ idx = 0 /\ global_flags = <<>> /\ subcommand = ""
    /\ subcommand_args = <<>> /\ prompt_given = <<>> /\ agent_stream = TRUE
    /\ agent_stream_raw = FALSE /\ agent_name = ""
    /\ classes = [k \in 1..Len(argv) |-> {}]
    /\ reads = Unread(argv)
    /\ iterations = 0
    /\ LaunchIdle /\ DetectIdle /\ RestIdle

NextParser ==
    \/ MainStep
    \/ MainEnds
    \/ AgentFlagsStep
    \/ AgentFlagsEnd
    \/ AgentNameStep
    \/ AgentNameEnds

SpecParser == InitParser /\ [][NextParser]_vars

\* ------------------------------------------------------------------------
\* Properties of the hand-rolled parser
\* ------------------------------------------------------------------------
\* What main() can take a token for.
TokenClasses == {"flag", "value", "subcommand", "prompt"}
\* The flags whose next token is their value.
ValueFlags == DirTokens \cup {"-p"}

\* main() ended at once with the usage: it found no subcommand, or
\* setup-c3po without its two arguments.
UsageFromMain ==
    /\ cmd = "usage" /\ status = 1
    /\ \/ subcommand = ""
       \/ subcommand = "setup-c3po" /\ Len(subcommand_args) < 2

\* The outcomes main() has decided for.
MainOutcomes ==
    {o \in {"help", "direct", "setup", "setup-c3po", "shell", "agent", "usage"} :
       \/ o = "help" /\ cmd = "help" /\ status = 0
       \/ o = "direct" /\ cmd = "direct"
       \/ o = "usage" /\ UsageFromMain
       \/ o = subcommand /\ ~UsageFromMain}

\* C17: the hand-rolled parser decides every argument list into exactly one
\* of help, direct prompt, setup, setup-c3po, shell, agent or usage error
\* with status 1; each token it reads before that is taken for exactly one
\* of global flag, flag value, subcommand name or prompt text, the tokens
\* read are those in front of the decision, the token after a -d, --dir or
\* -p that was read as a flag is its value, and a token taken as a value is
\* never the subcommand.
C17_ParserDisambiguates ==
    /\ \A k \in DOMAIN classes :
         /\ classes[k] \subseteq TokenClasses
         /\ Cardinality(classes[k]) <= 1
         /\ \A j \in 1..(k - 1) : classes[k] # {} => classes[j] # {}
         /\ classes[k] = {"subcommand"} => argv[k] = subcommand
         /\ classes[k] = {"value"} =>
              k > 1 /\ argv[k - 1] \in ValueFlags /\ classes[k - 1] = {"flag"}
         /\ (k > 1 /\ argv[k - 1] \in ValueFlags /\ classes[k - 1] = {"flag"}) =>
              classes[k] = {"value"}
    /\ loop = "main" =>
         /\ MainOutcomes = {}
         /\ \A k \in DOMAIN classes : classes[k] # {} <=> k <= idx
    /\ loop \notin {"main", "none"} =>
         /\ Cardinality(MainOutcomes) = 1
         /\ MainOutcomes = {ManualMain(argv).kind}
         /\ subcommand # "" =>
              Cardinality({k \in DOMAIN classes : classes[k] = {"subcommand"}}) = 1

\* main() has called cmd_shell for a command line in which a subcommand
\* word in front of "shell" was the value of a flag.
C17_Witness ==
    /\ loop = "done"
    /\ subcommand = "shell"
    /\ \E k \in DOMAIN classes :
         classes[k] = {"value"} /\ argv[k] \in {"setup", "setup-c3po", "shell", "agent"}

AfterAgent ==
    LET asked == AskedFor(argv, 1)
    IN IF asked.kind = "agent" THEN From(argv, asked.at + 1) ELSE <<>>

\* The process has ended with status 1 and has neither built the image nor
\* started a container.
EndedWithOne == pc = "exited" /\ status = 1 /\ ~built /\ ~started

\* C19 as written: the agent subcommand with a name that agents.yaml does
\* not define ends with exit status 1 and neither builds the image nor
\* starts a container.
C19_UnknownAgentExitsOne ==
    \A name \in AgentNames :
      (/\ Dispatched
       /\ AfterAgent \in {<<name>>, <<"run", name>>}
       /\ name \notin DOMAIN EntriesOnDisk) => EndedWithOne

\* "agent coder" has been run with an agents.yaml that defines only notes.
C19_Witness ==
    /\ Dispatched
    /\ argv = <<"agent", "coder">>
    /\ DOMAIN EntriesOnDisk = {"notes"}

\* C20 as written: without arguments the usage text is printed and the
\* process ends with exit status 1, without a build and without a
\* container.
C20_NoArgsExitsOne ==
    (Dispatched /\ argv = <<>>) =>
      /\ cmd \in {"usage", "nocommand"}
      /\ EndedWithOne

\* A process without arguments has ended.
C20_Witness ==
    /\ argv = <<>>
    /\ pc = "exited"

\* ------------------------------------------------------------------------
\* Encoding a list of init commands and decoding it again
\* ------------------------------------------------------------------------
\* Most commands of a list handed to encode_init_commands.
MaxCmds == 2

\* Command strings: plain, with a space, with quotes and a backslash, with
\* a newline, a backslash followed by the letter n, and the empty string.
CommandStrings ==
    {<<"c", "m", "d", "1">>, <<"c", " ", "d">>, <<"c", "\"", "\\", "\"">>,
     <<"c", "\n", "d">>, <<"\\", "n">>, <<>>}
CommandLists == SeqsUpTo(CommandStrings, MaxCmds)

\* encoded = encode_init_commands(original)
EncodeInit ==
    /\ encoded_init = <<>>
    /\ encoded_init' = encode_init_commands(init_commands)
    /\ UNCHANGED <<init_commands, decoded_init, hash_log, laterVars>>
    /\ UNCHANGED <<impl, runVars, agentVars, parseVars, launchVars, detectVars>>

\* decoded = decode_init_commands(encoded)
DecodeInit ==
    /\ encoded_init # <<>>
    /\ decoded_init = NotDecoded
    /\ decoded_init' = ListV(decode_init_commands(encoded_init))
    /\ UNCHANGED <<init_commands, encoded_init, hash_log, laterVars>>
    /\ UNCHANGED <<impl, runVars, agentVars, parseVars, launchVars, detectVars>>

InitEncode ==
    /\ impl = "argparse"
    /\ RunIdle
    /\ dockerfile = <<"x">>
    /\ entrypoint = <<>>
    /\ image = NoImage
    /\ agentsFile = MissingFile
    /\ AgentsIdle
    /\ ParseIdle /\ LaunchIdle /\ DetectIdle
    /\ init_commands \in CommandLists
    /\ encoded_init = <<>>
    /\ decoded_init = NotDecoded
    /\ hash_log = <<>>
    /\ LaterIdle

NextEncode == EncodeInit \/ DecodeInit

SpecEncode == InitEncode /\ [][NextEncode]_vars

\* C21: decode_init_commands(encode_init_commands(L)) is L, for every list
\* L of command strings: the empty list, strings with spaces, quotes or
\* newlines; the commands come back in their order, each as often as given.
C21_RoundTrip ==
    decoded_init # NotDecoded => decoded_init = ListV(init_commands)

\* A list of two commands came back: one with quotes and a backslash, then
\* one with a newline.
C21_Witness ==
    /\ decoded_init = ListV(init_commands)
    /\ Len(init_commands) = 2
    /\ \E k \in DOMAIN init_commands[1] : init_commands[1][k] = "\""
    /\ \E k \in DOMAIN init_commands[2] : init_commands[2][k] = "\n"

\* ------------------------------------------------------------------------
\* build_hash() called again and again
\* ------------------------------------------------------------------------
\* Most build_hash() calls followed.
MaxHashCalls == 2

\* What surrounds a call besides the two files: CLAUSE_DOCKER_FORCE_BUILD
\* and the image of the runtime.
HashForces == {Unset, "1"}
HashImages == {NoImage, ImageWith(<<>>)}

\* build_hash(): reads SCRIPT_DIR/Dockerfile and SCRIPT_DIR/entrypoint.sh.
BuildHash ==
    /\ Len(hash_log) < MaxHashCalls
    /\ hash_log' = Append(hash_log,
                          [df |-> dockerfile, ep |-> entrypoint, force |-> force,
                           image |-> image, calls_before |-> Len(hash_log),
                           returned |-> build_hash(dockerfile, entrypoint)])
    /\ UNCHANGED <<impl, runVars, agentVars, parseVars, launchVars, detectVars, encodeVars,
                   laterVars>>

\* Between two calls anything around the process changes: the variable of
\* the environment, the image, the two files.
AroundChanges ==
    /\ force' \in HashForces
    /\ image' \in HashImages
    /\ dockerfile' \in DockerfileContents
    /\ entrypoint' \in EntrypointContents
    /\ UNCHANGED <<impl, argv, pc, cmd, force_rebuild, needed, built, build_failed,
                   started, status, exc>>
    /\ UNCHANGED <<agentVars, parseVars, launchVars, detectVars, restVars>>

InitHash ==
    /\ impl \in Impls
    /\ RunIdle
    /\ dockerfile \in DockerfileContents
    /\ entrypoint \in EntrypointContents
    /\ image \in HashImages
    /\ agentsFile = MissingFile
    /\ AgentsIdle
    /\ ParseIdle /\ LaunchIdle /\ DetectIdle /\ RestIdle

NextHash == BuildHash \/ AroundChanges

SpecHash == InitHash /\ [][NextHash]_vars

C23_OnceAccepted ==
    \A name \in AgentNames :
      (/\ Dispatched
       /\ AfterAgent = <<"run", name, "--once">>
       /\ name \in DOMAIN EntriesOnDisk)
      => /\ cmd = "agent-run"
         /\ query = name
         /\ status # 2
         /\ (started /\ pc = "exited") => status \in {0, 1}

\* "agent run notes --once" has been run with an agents.yaml that defines
\* notes with a workspace.
C23_Witness ==
    /\ pc = "exited"
    /\ argv = <<"agent", "run", "notes", "--once">>
    /\ "notes" \in DOMAIN EntriesOnDisk
    /\ EntriesOnDisk["notes"].t = "dict"

\* ------------------------------------------------------------------------
\* run_container, the signal handler and the atexit hook
\* ------------------------------------------------------------------------
\* Most signals delivered to a process.
MaxSignals == 2

\* A call in progress: the function, where it stands, and the value it
\* will hand on (the return code for run_container, the exit status for
\* the atexit hook, -1 while there is none).  cleanup_container is followed
\* inside its caller: "test" before its if, "stopping" while the stop
\* command runs, "clear" before the name is set to None, "done" after it.
Frame(fn, at, code) == [fn |-> fn, at |-> at, code |-> code]
Top == frames[Len(frames)]
TopIs(fn, at) == frames # <<>> /\ Top.fn = fn /\ Top.at = at
TopAt(at) == frames # <<>> /\ Top.at = at
MoveTop(at, code) == [frames EXCEPT ![Len(frames)] = Frame(Top.fn, at, code)]

\* What none of the steps below changes.
SignalOthers ==
    <<impl, argv, force, dockerfile, entrypoint, image, cmd, force_rebuild, needed,
      built, build_failed, agentVars, parseVars, launchVars, detectVars, encodeVars,
      hash_log, directVars, cleanVars>>

\* run_container: the argument after the first "--name" becomes the running
\* container.
RecordName ==
    /\ TopIs("run_container", "entry")
    /\ running_container' = ArgAfter(docker_args, <<"--name">>)
    /\ frames' = MoveTop("named", -1)
    /\ UNCHANGED <<pc, started, status, exc, container, container_rc, format_rc, stops,
                   signals, signalled, returned, SignalOthers>>

\* run_container: subprocess.Popen(cmd) with the output piped, or the start
\* of subprocess.run(cmd).
SpawnContainer ==
    /\ TopIs("run_container", "named")
    /\ container' = "running"
    /\ started' = TRUE
    /\ pc' = "running"
    /\ frames' = MoveTop(IF format_stream THEN "piping" ELSE "waiting", -1)
    /\ UNCHANGED <<status, exc, running_container, container_rc, format_rc, stops,
                   signals, signalled, returned, SignalOthers>>

\* run_container: subprocess.Popen of format-stream, which raises where the
\* program is not found; the exception ends main().
StartFormatStream ==
    /\ TopIs("run_container", "piping")
    /\ \E found \in BOOLEAN :
         IF found THEN frames' = MoveTop("waiting", -1) /\ UNCHANGED exc
         ELSE frames' = <<Frame("atexit", "test", 1)>> /\ exc' = "FileNotFoundError"
    /\ UNCHANGED <<pc, started, status, running_container, container, container_rc,
                   format_rc, stops, signals, signalled, returned, SignalOthers>>

\* The container ends by itself.
ContainerEnds ==
    /\ pc # "exited"
    /\ container = "running"
    /\ container' = "exited"
    /\ container_rc' \in {0, 1}
    /\ UNCHANGED <<pc, started, status, exc, running_container, format_rc, frames, stops,
                   signals, signalled, returned, SignalOthers>>

\* run_container: format_proc.wait() returns when format-stream has ended,
\* subprocess.run(cmd) when the container has; the return code of the one
\* waited for is what run_container will return.
WaitReturns ==
    /\ TopIs("run_container", "waiting")
    /\ IF format_stream
       THEN \E rc \in {0, 1} : format_rc' = rc /\ frames' = MoveTop("test", rc)
       ELSE /\ container = "exited"
            /\ frames' = MoveTop("test", container_rc)
            /\ UNCHANGED format_rc
    /\ UNCHANGED <<pc, started, status, exc, running_container, container, container_rc,
                   stops, signals, signalled, returned, SignalOthers>>

\* cleanup_container: if _running_container, run "<runtime> stop <name>".
\* The faulty variant forgets the name as soon as it issues the stop.
CleanupTest_clearing_first ==
    /\ TopAt("test")
    /\ IF running_container # <<>>
       THEN /\ stops' = Append(stops, Top.fn)
            /\ running_container' = <<>>
            /\ frames' = MoveTop("stopping", Top.code)
       ELSE /\ frames' = MoveTop("done", Top.code)
            /\ UNCHANGED <<stops, running_container>>
    /\ UNCHANGED <<pc, started, status, exc, container, container_rc,
                   format_rc, signals, signalled, returned, SignalOthers>>
CleanupTest ==
    /\ TopAt("test")
    /\ IF running_container # <<>>
       THEN stops' = Append(stops, Top.fn) /\ frames' = MoveTop("stopping", Top.code)
       ELSE frames' = MoveTop("done", Top.code) /\ UNCHANGED stops
    /\ UNCHANGED <<pc, started, status, exc, running_container, container, container_rc,
                   format_rc, signals, signalled, returned, SignalOthers>>

\* cleanup_container: the stop command ends; a container that was running
\* is stopped.
StopEnds ==
    /\ TopAt("stopping")
    /\ container' = IF container = "running" THEN "stopped" ELSE container
    /\ frames' = MoveTop("clear", Top.code)
    /\ UNCHANGED <<pc, started, status, exc, running_container, container_rc, format_rc,
                   stops, signals, signalled, returned, SignalOthers>>

\* cleanup_container: _running_container = None.
ClearName ==
    /\ TopAt("clear")
    /\ running_container' = <<>>
    /\ frames' = MoveTop("done", Top.code)
    /\ UNCHANGED <<pc, started, status, exc, container, container_rc, format_rc, stops,
                   signals, signalled, returned, SignalOthers>>

\* run_container returns; its caller returns the value to main(), and
\* sys.exit(main()) ends the interpreter, which runs the atexit hook.
Returns ==
    /\ TopIs("run_container", "done")
    /\ returned' = Top.code
    /\ frames' = <<Frame("atexit", "test", Top.code)>>
    /\ UNCHANGED <<pc, started, status, exc, running_container, container, container_rc,
                   format_rc, stops, signals, signalled, SignalOthers>>

\* SIGINT or SIGTERM: the handler runs in the main thread, on top of what
\* the thread was doing.  It calls cleanup_container.  Signals that arrive
\* once the interpreter is ending are not followed.  The faulty variant is a
\* handler that only exits.
Signal_only_exits ==
    /\ signals < MaxSignals
    /\ frames # <<>> /\ Top.fn # "atexit"
    /\ signals' = signals + 1
    /\ signalled' = (signalled \/ container = "running")
    /\ frames' = Append(frames, Frame("signal_handler", "done", -1))
    /\ UNCHANGED <<pc, started, status, exc, running_container, container, container_rc,
                   format_rc, stops, returned, SignalOthers>>
Signal ==
    /\ signals < MaxSignals
    /\ frames # <<>> /\ Top.fn # "atexit"
    /\ signals' = signals + 1
    /\ signalled' = (signalled \/ container = "running")
    /\ frames' = Append(frames, Frame("signal_handler", "test", -1))
    /\ UNCHANGED <<pc, started, status, exc, running_container, container, container_rc,
                   format_rc, stops, returned, SignalOthers>>

\* signal_handler: sys.exit(130).  SystemExit leaves every call in progress
\* and ends the interpreter, which runs the atexit hook.
HandlerExits ==
    /\ TopIs("signal_handler", "done")
    /\ frames' = <<Frame("atexit", "test", 130)>>
    /\ UNCHANGED <<pc, started, status, exc, running_container, container, container_rc,
                   format_rc, stops, signals, signalled, returned, SignalOthers>>

\* The atexit hook has run: the process is gone.
ProcessExits ==
    /\ TopIs("atexit", "done")
    /\ frames' = <<>>
    /\ pc' = "exited"
    /\ status' = Top.code
    /\ UNCHANGED <<started, exc, running_container, container, container_rc, format_rc,
                   stops, signals, signalled, returned, SignalOthers>>

\* The three ways run_container is called: formatted stream, raw stream,
\* no stream.
StreamModes ==
    {[stream |-> TRUE, raw |-> FALSE], [stream |-> TRUE, raw |-> TRUE],
     [stream |-> FALSE, raw |-> FALSE]}

\* A process that has reached run_container with the arguments of a direct
\* prompt.
InitSignal ==
    /\ impl \in Impls
    /\ argv = <<"-p", "hello">>
    /\ force = Unset /\ pc = "start" /\ cmd = "direct"
    /\ force_rebuild = FALSE /\ needed = FALSE /\ built = FALSE
    /\ build_failed = FALSE /\ started = FALSE /\ status = -1 /\ exc = ""
    /\ dockerfile = <<"x">>
    /\ entrypoint = <<>>
    /\ image = ImageWith(build_hash(dockerfile, entrypoint))
    /\ agentsFile = MissingFile
    /\ AgentsIdle
    /\ ParseIdle /\ DetectIdle /\ EncodeIdle /\ hash_log = <<>> /\ DirectIdle
    /\ CleanIdle
    /\ \E m \in StreamModes :
         /\ docker_args = build_docker_args(impl, <<"hello">>, Cwd, PathName(Cwd), FALSE,
                                            NoneV, DictV(EmptyMap), ListV(<<>>),
                                            m.stream, m.raw,
                                            [token |-> "env", creds |-> FALSE, debug |-> FALSE])
         /\ format_stream = UsesFormatStream(m.stream, m.raw)
    /\ running_container = <<>> /\ container = "none" /\ container_rc = -1
    /\ format_rc = -1 /\ stops = <<>> /\ signals = 0 /\ signalled = FALSE
    /\ returned = -1
    /\ frames = <<Frame("run_container", "entry", -1)>>

NextSignal ==
    \/ RecordName
    \/ SpawnContainer
    \/ StartFormatStream
    \/ ContainerEnds
    \/ WaitReturns
    \/ CleanupTest
    \/ StopEnds
    \/ ClearName
    \/ Returns
    \/ Signal
    \/ HandlerExits
    \/ ProcessExits

SpecSignal == InitSignal /\ [][NextSignal]_vars

\* The name build_docker_args gave the container.
ContainerName == ArgAfter(docker_args, <<"--name">>)

C25_StopIssuedOnce == Len(stops) <= 1

\* A signal handler runs its cleanup on top of a cleanup that has started
\* its stop and has not cleared the name.
C25_Witness ==
    /\ Len(frames) >= 2
    /\ Top.fn = "signal_handler"
    /\ Top.at \in {"stopping", "clear", "done"}
    /\ frames[Len(frames) - 1].at = "stopping"

\* C26: while the container may be running its name is the recorded running
\* container (it is recorded before the container is spawned and cleared
\* only after a stop was issued), and once run_container has returned, with
\* or without format-stream, no running container is recorded.
C26_NameRecordedWhileRunning ==
    /\ container = "running" => running_container = ContainerName
    /\ (running_container = <<>> /\ container # "none") => stops # <<>>
    /\ returned # -1 => running_container = <<>>

\* run_container has returned after its container ran with its name
\* recorded, piped through format-stream.
C26_Witness ==
    /\ returned # -1
    /\ format_stream
    /\ stops = <<"run_container">>
    /\ running_container = <<>>
    /\ ContainerName = <<"claude-code-", "pid">>

\* C27 as written: run_container returns the exit code of the container, in
\* formatted stream, raw stream and no stream mode.
C27_ReturnsContainerCode == returned # -1 => returned = container_rc

\* run_container has returned from a run piped through format-stream whose
\* container had ended.
C27_Witness ==
    /\ returned # -1
    /\ format_stream
    /\ container = "exited"

\* ------------------------------------------------------------------------
\* cmd_direct_prompt, from the authentication check on
\* ------------------------------------------------------------------------
\* The paths cmd_direct_prompt tests, creates or writes.  All but
\* CREDENTIALS (in ~/.claude) and container-CLAUDE.md (in SCRIPT_DIR) lie
\* in CONFIG_DIR.
InConfigDir == {"TOKEN_FILE", "USER_CONFIG", "DOCKER_YAML_CONFIG", "CLAUDE.md"}
DirectPaths == {"CONFIG_DIR", "CREDENTIALS", "container-CLAUDE.md"} \cup InConfigDir
DirectDisks == {d \in SUBSET DirectPaths : d \cap InConfigDir # {} => "CONFIG_DIR" \in d}

\* TOKEN_FILE.read_text()
TokenFileText == <<"tok", "\n">>

\* What none of the steps of cmd_direct_prompt changes.
DirectOthers ==
    <<impl, argv, force, dockerfile, entrypoint, image, cmd, needed, built, build_failed,
      started, exc, agentVars, parseVars, launchVars, detectVars, encodeVars, hash_log,
      signalVars, cleanVars>>

\* What the handler creates or writes once it has found a token or
\* credentials: CONFIG_DIR.mkdir(exist_ok=True), USER_CONFIG and (in
\* claude_docker.py) DOCKER_YAML_CONFIG where they do not exist, and
\* CLAUDE.md where SCRIPT_DIR has a container-CLAUDE.md.
ConfigWrites(im, d) ==
    (IF "CONFIG_DIR" \in d THEN {} ELSE {"CONFIG_DIR"})
    \cup (IF "USER_CONFIG" \in d THEN {} ELSE {"USER_CONFIG"})
    \cup (IF im = "argparse" /\ "DOCKER_YAML_CONFIG" \notin d
          THEN {"DOCKER_YAML_CONFIG"} ELSE {})
    \cup (IF "container-CLAUDE.md" \in d THEN {"CLAUDE.md"} ELSE {})

\* cmd_direct_prompt up to "return 1": the token of the environment, else
\* the token file, else the credentials file, else the error.  Then the
\* config directory and files.  The faulty variant prepares the config
\* before it looks for the authentication.
DirectAuth_config_first ==
    /\ pc = "auth"
    /\ disk' = disk \cup ConfigWrites(impl, disk)
    /\ wrote' = wrote \cup ConfigWrites(impl, disk)
    /\ IF environ_token # <<>> THEN pc' = "detect" /\ UNCHANGED <<environ_token, status>>
       ELSE IF "TOKEN_FILE" \in disk
       THEN pc' = "detect" /\ environ_token' = Strip(TokenFileText) /\ UNCHANGED status
       ELSE IF "CREDENTIALS" \in disk
       THEN pc' = "detect" /\ UNCHANGED <<environ_token, status>>
       ELSE pc' = "exited" /\ status' = 1 /\ UNCHANGED environ_token
    /\ UNCHANGED <<force_rebuild, DirectOthers>>
DirectAuth ==
    /\ pc = "auth"
    /\ IF environ_token # <<>> THEN pc' = "config" /\ UNCHANGED <<environ_token, status>>
       ELSE IF "TOKEN_FILE" \in disk
       THEN pc' = "config" /\ environ_token' = Strip(TokenFileText) /\ UNCHANGED status
       ELSE IF "CREDENTIALS" \in disk
       THEN pc' = "config" /\ UNCHANGED <<environ_token, status>>
       ELSE pc' = "exited" /\ status' = 1 /\ UNCHANGED environ_token
    /\ UNCHANGED <<force_rebuild, disk, wrote, DirectOthers>>

\* cmd_direct_prompt: the config directory and files.
DirectConfig ==
    /\ pc = "config"
    /\ disk' = disk \cup ConfigWrites(impl, disk)
    /\ wrote' = wrote \cup ConfigWrites(impl, disk)
    /\ pc' = "detect"
    /\ UNCHANGED <<force_rebuild, status, environ_token, DirectOthers>>

\* cmd_direct_prompt: the runtime (exit status 1 without one), then
\* force_rebuild = "-b" in flags.
DirectDetect ==
    /\ pc = "detect"
    /\ \E runtimeOK \in BOOLEAN :
         IF runtimeOK
         THEN /\ pc' = "check"
              /\ force_rebuild' = InList("-b", Dispatch(impl, argv).flags)
              /\ UNCHANGED status
         ELSE pc' = "exited" /\ status' = 1 /\ UNCHANGED force_rebuild
    /\ UNCHANGED <<environ_token, disk, wrote, DirectOthers>>

\* A process that main() has handed to cmd_direct_prompt.
InitDirect ==
    /\ impl \in Impls
    /\ argv \in {<<"-p", "hello">>, <<"-b", "-p", "hello">>}
    /\ force = Unset /\ pc = "auth" /\ cmd = "direct"
    /\ force_rebuild = FALSE /\ needed = FALSE /\ built = FALSE
    /\ build_failed = FALSE /\ started = FALSE /\ status = -1 /\ exc = ""
    /\ dockerfile = <<"x">>
    /\ entrypoint = <<>>
    /\ image \in {NoImage, ImageWith(build_hash(dockerfile, entrypoint))}
    /\ agentsFile = MissingFile
    /\ AgentsIdle
    /\ ParseIdle /\ LaunchIdle /\ DetectIdle /\ EncodeIdle /\ hash_log = <<>>
    /\ SignalIdle /\ CleanIdle
    /\ environ_token \in {<<>>, <<"tok">>}
    /\ disk \in DirectDisks
    /\ wrote = {}

NextDirect ==
    \/ DirectAuth
    \/ DirectConfig
    \/ DirectDetect
    \/ CheckRebuild
    \/ BuildImage
    \/ BuildFails
    \/ StartContainer
    \/ ContainerExits

SpecDirect == InitDirect /\ [][NextDirect]_vars

\* C28: in direct prompt mode without CLAUDE_CODE_OAUTH_TOKEN, without a
\* token file and without a credentials file, cmd_direct_prompt returns 1
\* and has created or written no config file or directory, built no image
\* and started no container.
C28_NoAuthNoTrace ==
    (/\ cmd = "direct"
     /\ pc # "auth"
     /\ environ_token = <<>>
     /\ "TOKEN_FILE" \notin disk
     /\ "CREDENTIALS" \notin disk)
    => /\ pc = "exited"
       /\ status = 1
       /\ wrote = {}
       /\ ~built
       /\ ~started

\* cmd_direct_prompt has returned for a process without any of the three
\* and without a config directory.
C28_Witness ==
    /\ cmd = "direct"
    /\ pc = "exited"
    /\ environ_token = <<>>
    /\ "TOKEN_FILE" \notin disk
    /\ "CREDENTIALS" \notin disk
    /\ "CONFIG_DIR" \notin disk

\* ------------------------------------------------------------------------
\* Agent commands without agents
\* ------------------------------------------------------------------------
\* C29 as written: with agents.yaml missing or an empty document, "agent
\* list" and "agent run <name>" end with a non-zero exit status after an
\* error message, not through an exception that nothing handles, and
\* neither build the image nor start a container.
C29_NoAgentsFileIsAnError ==
    \A name \in AgentNames :
      (/\ Dispatched
       /\ AfterAgent \in {<<"list">>, <<"run", name>>}
       /\ agentsFile \in {MissingFile, FileOf(<<>>)})
      => /\ pc = "exited"
         /\ status > 0
         /\ exc = ""
         /\ ~built
         /\ ~started

\* "agent list" has ended for an agents.yaml that is an empty document.
C29_Witness ==
    /\ pc = "exited"
    /\ AfterAgent = <<"list">>
    /\ agentsFile = FileOf(<<>>)

\* ------------------------------------------------------------------------
\* clean-logs
\* ------------------------------------------------------------------------
\* Most characters of an --older-than value.
MaxOlderLen == 3

\* The characters an --older-than value is made of here, and the values.
OlderChars == {"1", "7", "d", "x"}
OlderTexts == SeqsUpTo(OlderChars, MaxOlderLen)
DigitValue(ch) == IF ch = "1" THEN 1 ELSE 7
IsDigits(s) == s # <<>> /\ \A k \in DOMAIN s : s[k] \in {"1", "7"}

\* s.rstrip('d'): every "d" at the end goes.
RECURSIVE RStripD(_)
RStripD(s) ==
    IF s # <<>> /\ s[Len(s)] = "d" THEN RStripD(SubSeq(s, 1, Len(s) - 1)) ELSE s

\* int(s) for a text of digits (ValueError for any other text).
RECURSIVE IntOf(_)
IntOf(s) ==
    IF s = <<>> THEN 0
    ELSE 10 * IntOf(SubSeq(s, 1, Len(s) - 1)) + DigitValue(s[Len(s)])

\* streamLogging of claude-docker.yaml: no file, a mapping without
\* retentionDays, a mapping with it.
LogConfigs == {NoneV, DictV(EmptyMap), DictV([retentionDays |-> IntV(3)])}

\* The log directory: files that glob("*.json") matches and one that it
\* does not, each absent or last modified so many days ago.
LogNames == {"s1.json", "s2.json", "notes.txt"}
MatchesJsonGlob(name) == name \in {"s1.json", "s2.json"}
LogAges == {0, 5, 40}
LogFile(name, age) == [name |-> name, age |-> age]
LogDirs ==
    {d \in SUBSET {LogFile(n, a) : n \in LogNames, a \in LogAges} :
       \A f \in d, g \in d : f.name = g.name => f = g}

\* retention_days of the config: retentionDays of streamLogging, 30 without
\* the file or the key.
ConfigRetention(c) ==
    IF c.t = "dict" THEN Get(c, "retentionDays", IntV(30)).v[1] ELSE 30

\* cmd_clean_logs: the retention of the config; if args.older_than is
\* truthy, int(args.older_than.rstrip('d')) instead, or return 1 at a
\* ValueError; then every *.json file whose mtime is before now minus the
\* retention is unlinked.
cmd_clean_logs(older, c, files) ==
    LET given == older.t = "str" /\ older.v # <<>>
        text == RStripD(older.v)
        retention_days == IF given THEN IntOf(text) ELSE ConfigRetention(c)
    IN IF given /\ ~IsDigits(text) THEN [status |-> 1, deleted |-> {}]
       ELSE [status |-> 0,
             deleted |-> {f.name : f \in {g \in files : MatchesJsonGlob(g.name) /\ g.age > retention_days}}]

\* main() hands args to cmd_clean_logs, which runs to its end.
CleanLogs ==
    /\ pc = "idle"
    /\ LET r == cmd_clean_logs(older_than, log_config, log_files) IN
       /\ deleted' = r.deleted
       /\ log_files' = {f \in log_files : f.name \notin r.deleted}
       /\ status' = r.status
    /\ pc' = "exited"
    /\ cmd' = "clean-logs"
    /\ UNCHANGED <<impl, argv, force, dockerfile, entrypoint, image, force_rebuild, needed,
                   built, build_failed, started, exc, older_than, log_config>>
    /\ UNCHANGED <<agentVars, parseVars, launchVars, detectVars, encodeVars, hash_log,
                   signalVars, directVars>>

\* The process is gone; the next one finds the log directory as it is.
CleanAgain ==
    /\ pc = "exited"
    /\ pc' = "idle"
    /\ status' = -1
    /\ cmd' = "none"
    /\ deleted' = {}
    /\ UNCHANGED <<impl, argv, force, dockerfile, entrypoint, image, force_rebuild, needed,
                   built, build_failed, started, exc, older_than, log_config, log_files>>
    /\ UNCHANGED <<agentVars, parseVars, launchVars, detectVars, encodeVars, hash_log,
                   signalVars, directVars>>

InitClean ==
    /\ impl = "argparse"
    /\ RunIdle
    /\ dockerfile = <<"x">>
    /\ entrypoint = <<>>
    /\ image = NoImage
    /\ agentsFile = MissingFile
    /\ AgentsIdle
    /\ ParseIdle /\ LaunchIdle /\ DetectIdle /\ EncodeIdle /\ hash_log = <<>>
    /\ SignalIdle /\ DirectIdle
    /\ older_than \in {NoneV} \cup {StrV(t) : t \in OlderTexts}
    /\ log_config \in LogConfigs
    /\ log_files \in LogDirs
    /\ deleted = {}

NextClean == CleanLogs \/ CleanAgain

SpecClean == InitClean /\ [][NextClean]_vars

\* An --older-than value as the claim describes it: a number, then
\* optionally one "d".
NumberWithOptionalD(s) ==
    \/ IsDigits(s)
    \/ Len(s) >= 2 /\ s[Len(s)] = "d" /\ IsDigits(SubSeq(s, 1, Len(s) - 1))
DaysOf(s) == IntOf(IF s[Len(s)] = "d" THEN SubSeq(s, 1, Len(s) - 1) ELSE s)

\* The retention period as the claim describes it: the --older-than value
\* when given, else retentionDays of the config, else 30 days.
RetentionPeriod ==
    IF older_than.t = "str" THEN DaysOf(older_than.v)
    ELSE IF log_config.t = "dict" /\ "retentionDays" \in DOMAIN log_config.v
    THEN log_config.v["retentionDays"].v[1]
    ELSE 30

\* C30 as written: clean-logs deletes only *.json files of the log
\* directory that were last modified longer ago than the retention period,
\* never a file modified within it; and with an --older-than value that is
\* not a number followed by an optional "d" it returns 1 and deletes
\* nothing.
C30_DeletesOnlyOldLogs ==
    (pc = "exited" /\ cmd = "clean-logs") =>
      IF older_than.t = "str" /\ ~NumberWithOptionalD(older_than.v)
      THEN status = 1 /\ deleted = {}
      ELSE /\ \A name \in deleted : MatchesJsonGlob(name)
           /\ \A f \in log_files : MatchesJsonGlob(f.name) => f.age <= RetentionPeriod

\* clean-logs has run with --older-than 7dd on a directory with an old and a
\* recent log, has deleted the old one and has returned 0.
C30_Witness ==
    /\ pc = "exited" /\ cmd = "clean-logs"
    /\ older_than = StrV(<<"7", "d", "d">>)
    /\ status = 0
    /\ deleted = {"s1.json"}
    /\ LogFile("s2.json", 5) \in log_files

====
